---- MODULE Spec2Model ----
(***************************************************************************)
(* The scene store of the classroom 3D editor (src/src/store/sceneStore.ts) *)
(* and the persistence gateway it writes through                            *)
(* (src/src/services/firestoreService.ts), as a state machine.             *)
(*                                                                         *)
(* Every store handler is one action up to its first await; the part of a  *)
(* handler that runs after an awaited gateway call is a second action that *)
(* fires when the call settles.  A handler that read the store with get()  *)
(* before the await keeps that copy in its in-flight record, as the code   *)
(* keeps it in the local constant `state`.                                  *)
(***************************************************************************)
EXTENDS Integers, Sequences, FiniteSets, TLC

VARIABLES
    objects,            \* SceneState.objects
    groups,             \* SceneState.groups
    lights,             \* SceneState.lights
    selectedObject,     \* SceneState.selectedObject (a mesh handle)
    selectedLight,      \* SceneState.selectedLight (a light id)
    transformMode,      \* SceneState.transformMode
    editMode,           \* SceneState.editMode
    persistentEditMode, \* SceneState.persistentEditMode
    history,            \* SceneState.history
    historyIndex,       \* SceneState.historyIndex
    canUndo,            \* SceneState.canUndo
    canRedo,            \* SceneState.canRedo
    hasUnsavedChanges,  \* SceneState.hasUnsavedChanges
    currentProjectId,   \* SceneState.currentProjectId
    currentUserId,      \* SceneState.currentUserId
    subscribed,         \* project whose collections are subscribed to
    listeners,          \* the onSnapshot listeners attached, and how many ever were
    unsubscribe,        \* SceneState.unsubscribeObjects / Groups / Lights
    timers,             \* number of queued setTimeout(saveToHistory, 0)
    pending,            \* handlers suspended at an awaited gateway call
    remoteObjects,      \* the objects collection of the document store
    remoteGroups,       \* the groups collection of the document store
    remoteLights,       \* the lights collection of the document store
    undelivered,        \* collections changed since their last snapshot
    nextId,             \* next value of crypto.randomUUID()
    nextDoc,            \* next document id the store assigns
    commits,            \* number of saveToHistory calls so far
    undoCalls,          \* number of undo calls that moved the index
    calls,              \* number of handler calls counted so far
    geom,               \* position buffers written in place, per mesh handle
    draggedVertex,      \* SceneState.draggedVertex
    draggedEdge,        \* SceneState.draggedEdge
    selectedElements,   \* SceneState.selectedElements
    gesture,            \* the drag started last, as it started (history variable)
    codec,              \* a mesh, its persisted record and the mesh rebuilt from it
    placementMode,      \* SceneState.placementMode
    pendingObject,      \* SceneState.pendingObject
    batch,              \* the bulk operation of the gateway or the store under way
    shapes,             \* geometries put in place of the one a mesh was made with
    last                \* the handler step taken last, with its arguments

vars == <<objects, groups, lights, selectedObject, selectedLight,
          transformMode, editMode, persistentEditMode, history, historyIndex, canUndo, canRedo, hasUnsavedChanges, currentProjectId,
          currentUserId, subscribed, listeners, unsubscribe, timers, pending,
          remoteObjects,
          remoteGroups, remoteLights, undelivered, nextId, nextDoc, commits,
          undoCalls, calls, geom, draggedVertex, draggedEdge,
          selectedElements, gesture, codec, placementMode, pendingObject,
          batch, shapes, last>>

----------------------------------------------------------------------------
(* Values *)

\* undefined / null for ids, handles and project context
NoId == 0

\* a mesh handle is <<id of the object it was made for, stamp of the history
\* snapshot whose cloneObject made it (0: not a clone)>>
NoMesh == <<0, 0>>

\* `Limit history to 50 states`
MaxHistory == 50

\* saveToHistory calls explored: enough for the stack to overflow twice
MaxCommits == MaxHistory + 2

\* undo calls explored while further commits are possible
MaxUndoCalls == 1

----------------------------------------------------------------------------
(* Pure helpers *)

Range(s) == {s[i] : i \in DOMAIN s}

RECURSIVE SelectSeq2(_, _)
\* Array.prototype.filter on the indices kept in `keep`
SelectSeq2(s, keep) ==
    IF s = <<>> THEN <<>>
    ELSE IF keep[1] THEN <<s[1]>> \o SelectSeq2(Tail(s), Tail(keep))
         ELSE SelectSeq2(Tail(s), Tail(keep))

\* cloneObject: a new mesh with cloned geometry and material
cloneObject(mesh, stamp) == <<mesh[1], stamp>>

\* createLight: a fresh live light of the given type, always visible and
\* of intensity 1
createLight(type) == [type |-> type, visible |-> TRUE, intensity |-> 1]

\* null for the transient drag state (a record, as the states it stands
\* in for are)
NoDrag == [null |-> TRUE]

\* (a - b).lengthSq(), in squared units
DistSq(a, b) ==
    (a[1] - b[1]) * (a[1] - b[1]) + (a[2] - b[2]) * (a[2] - b[2])
        + (a[3] - b[3]) * (a[3] - b[3])

\* `pos.distanceTo(selectedPos) < 0.0001`: 0.0001 is two units
WeldTolerance == 2
Overlapping(a, b) == DistSq(a, b) < WeldTolerance * WeldTolerance

\* the position buffer of a newly constructed geometry, indexed from 0: two
\* vertices at one corner, one within the tolerance of them, one exactly at
\* the tolerance, one far away
BufferOf(geometry) ==
    [i \in 0..4 |->
        CASE i = 0 -> <<0, 0, 0>>
          [] i = 1 -> <<0, 0, 0>>
          [] i = 2 -> <<1, 1, 0>>
          [] i = 3 -> <<2, 0, 0>>
          [] i = 4 -> <<8, 0, 0>>]

\* the buffers of `meshes`, all newly constructed, added to `heap`
WithBuffers(heap, meshes, geometryOf) ==
    [h \in DOMAIN heap \cup meshes |->
        IF h \in DOMAIN heap THEN heap[h] ELSE BufferOf(geometryOf[h])]

\* document ids live apart from local ids
DocId(n) == 100 + n

----------------------------------------------------------------------------
(* Construction *)

\* the `state` a handler reads with get() and keeps across an await
Captured == [objects |-> objects, groups |-> groups, lights |-> lights,
             selectedObject |-> selectedObject, selectedLight |-> selectedLight]

NoCapture == [objects |-> <<>>, groups |-> <<>>, lights |-> <<>>,
              selectedObject |-> NoMesh, selectedLight |-> NoId]

\* create<SceneState>(...): the store as constructed
InitStore ==
    /\ objects = <<>>
    /\ groups = <<>>
    /\ lights = <<>>
    /\ selectedObject = NoMesh
    /\ selectedLight = NoId
    /\ transformMode = "null"
    /\ editMode = "null"
    /\ persistentEditMode = "null"
    /\ history = <<>>
    /\ historyIndex = -1
    /\ canUndo = FALSE
    /\ canRedo = FALSE
    /\ hasUnsavedChanges = FALSE
    /\ currentProjectId = NoId
    /\ currentUserId = NoId
    /\ subscribed = [project |-> NoId, user |-> NoId]
    /\ listeners = [active |-> {}, made |-> 0]
    /\ unsubscribe = [objects |-> NoId, groups |-> NoId, lights |-> NoId]
    /\ timers = 0
    /\ pending = <<>>
    /\ remoteObjects = <<>>
    /\ remoteGroups = <<>>
    /\ remoteLights = <<>>
    /\ undelivered = [objects |-> FALSE, groups |-> FALSE, lights |-> FALSE]
    /\ nextId = 1
    /\ nextDoc = DocId(1)
    /\ commits = 0
    /\ undoCalls = 0
    /\ calls = 0
    /\ geom = <<>>
    /\ draggedVertex = NoDrag
    /\ draggedEdge = NoDrag
    /\ selectedElements = [vertices |-> <<>>, edges |-> <<>>, faces |-> <<>>]
    /\ gesture = NoDrag
    /\ placementMode = FALSE
    /\ pendingObject = NoDrag
    /\ batch = NoDrag
    /\ shapes = <<>>
    /\ last = [op |-> "init", id |-> NoId]

\* the store as constructed, no mesh handed to the codec
Init == InitStore /\ codec = NoDrag

\* handler calls explored when the scene is edited
MaxCalls == 4

\* a step that is one of the MaxCalls handler calls explored, and a step
\* that is not counted (a continuation, a timer, a snapshot, the gateway)
Counted(A) == calls < MaxCalls /\ calls' = calls + 1 /\ A
Free(A) == A /\ UNCHANGED calls

sceneVars == <<objects, groups, lights, selectedObject, selectedLight>>
modeVars == <<transformMode, editMode, persistentEditMode>>
placeVars == <<placementMode, pendingObject>>
bulkVars == <<batch>>
shapeVars == <<shapes>>
dragVars ==
    <<draggedVertex, draggedEdge, selectedElements, gesture, codec, placeVars>>
editVars == <<dragVars, bulkVars, shapeVars>>
historyVars == <<history, historyIndex, canUndo, canRedo>>
projectVars ==
    <<currentProjectId, currentUserId, subscribed, listeners, unsubscribe>>
remoteVars == <<remoteObjects, remoteGroups, remoteLights, undelivered, nextDoc>>

----------------------------------------------------------------------------
(* History engine *)

\* the HistoryState saveToHistory builds from the scene `st`: objects with
\* cloned meshes, groups by value, lights without their live handle
HistoryStateOf(st, stamp) ==
    [objects |-> [i \in DOMAIN st.objects |->
                    [st.objects[i] EXCEPT !.mesh = cloneObject(@, stamp)]],
     groups  |-> st.groups,
     lights  |-> [i \in DOMAIN st.lights |->
                    [st.lights[i] EXCEPT !.object = "undefined"]],
     stamp   |-> stamp]

\* saveToHistory without the shift
PushHistoryNoShift(hist, index, snapshot) ==
    Append(SubSeq(hist, 1, index + 1), snapshot)

\* saveToHistory without the slice: the redo tail is kept
PushHistoryKeepRedo(hist, index, snapshot) ==
    LET newHistory == Append(hist, snapshot)
    IN  IF Len(newHistory) > MaxHistory THEN Tail(newHistory) ELSE newHistory

\* slice(0, historyIndex + 1), push, and shift once the length exceeds 50
PushHistory(hist, index, snapshot) ==
    LET newHistory == Append(SubSeq(hist, 1, index + 1), snapshot)
    IN  IF Len(newHistory) > MaxHistory THEN Tail(newHistory) ELSE newHistory

\* geometry.clone() for the meshes cloneObject copies: the clone of a mesh
\* whose buffer was written in place gets a copy of that buffer
CloneGeometries(heap, objs, stamp) ==
    LET src == {objs[k].mesh : k \in DOMAIN objs} \cap DOMAIN heap
        new == {cloneObject(m, stamp) : m \in src}
    IN  [h \in DOMAIN heap \cup new |->
            IF h \in new
            THEN heap[CHOOSE m \in src : cloneObject(m, stamp) = h]
            ELSE heap[h]]

\* the body of saveToHistory, run on the scene `st` and the buffers `heap`
\* (the current store with the changes the calling handler made in the same
\* step)
SaveToHistoryWith(st, heap) ==
    LET newHistory == PushHistory(history, historyIndex,
                                  HistoryStateOf(st, commits + 1))
    IN  /\ history' = newHistory
        /\ historyIndex' = Len(newHistory) - 1
        /\ canUndo' = TRUE
        /\ canRedo' = FALSE
        /\ hasUnsavedChanges' = TRUE
        /\ commits' = commits + 1
        /\ geom' = CloneGeometries(heap, st.objects, commits + 1)

SaveToHistoryOn(st) == SaveToHistoryWith(st, geom)

\* saveToHistory(), called on its own
SaveToHistory ==
    /\ commits < MaxCommits
    /\ SaveToHistoryOn(Captured)
    /\ last' = [op |-> "saveToHistory", id |-> NoId]
    /\ UNCHANGED <<sceneVars, modeVars, editVars, projectVars, remoteVars, timers,
                   pending, nextId, undoCalls>>

\* the lights of a snapshot with their live handles made again
RestoreLights(ls) ==
    [i \in DOMAIN ls |-> [ls[i] EXCEPT !.object = createLight(ls[i].type)]]

\* a variant of undo's guard that also refuses the step from index 1 to 0
UndoBlockedAtOne(index) == index <= 1

\* undo's guard: `if (state.historyIndex <= 0) return state`
UndoBlocked(index) == index <= 0

\* redo's guard: `if (state.historyIndex >= state.history.length - 1) return state`
RedoBlocked(index, hist) == index >= Len(hist) - 1

\* The undo calls explored: MaxUndoCalls of them anywhere, and any number
\* once more than MaxHistory commits were made with no undo between them.
UndoExplored ==
    \/ undoCalls < MaxUndoCalls
    \/ commits > MaxHistory /\ undoCalls = 0

\* undo()
Undo ==
    /\ UndoExplored
    /\ IF UndoBlocked(historyIndex)
       THEN UNCHANGED <<sceneVars, historyVars, geom, undoCalls>>
       ELSE LET previousState == history[(historyIndex - 1) + 1]
            IN  /\ objects' = previousState.objects
                /\ groups' = previousState.groups
                /\ lights' = RestoreLights(previousState.lights)
                /\ historyIndex' = historyIndex - 1
                /\ canUndo' = (historyIndex - 1 > 0)
                /\ canRedo' = TRUE
                /\ selectedObject' = NoMesh
                /\ selectedLight' = NoId
                /\ undoCalls' = IF commits > MaxHistory /\ undoCalls = 0
                                THEN undoCalls ELSE undoCalls + 1
                /\ UNCHANGED <<history, geom>>
    /\ last' = [op |-> IF UndoBlocked(historyIndex) THEN "undoNoop" ELSE "undo",
                id |-> NoId]
    /\ UNCHANGED <<modeVars, editVars, hasUnsavedChanges, projectVars, remoteVars,
                   timers, pending, nextId, commits>>

\* redo()
Redo ==
    /\ IF RedoBlocked(historyIndex, history)
       THEN UNCHANGED <<sceneVars, historyVars, geom>>
       ELSE LET nextState == history[(historyIndex + 1) + 1]
            IN  /\ objects' = nextState.objects
                /\ groups' = nextState.groups
                /\ lights' = RestoreLights(nextState.lights)
                /\ historyIndex' = historyIndex + 1
                /\ canUndo' = TRUE
                /\ canRedo' = (historyIndex + 1 < Len(history) - 1)
                /\ selectedObject' = NoMesh
                /\ selectedLight' = NoId
                /\ UNCHANGED <<history, geom>>
    /\ last' = [op |-> IF RedoBlocked(historyIndex, history) THEN "redoNoop"
                       ELSE "redo",
                id |-> NoId]
    /\ UNCHANGED <<modeVars, editVars, hasUnsavedChanges, projectVars, remoteVars,
                   timers, pending, nextId, commits, undoCalls>>

\* The history engine on its own: saveToHistory, undo and redo called in any
\* order on the store as constructed.
NextHistory == Free(SaveToHistory) \/ Free(Undo) \/ Free(Redo)

SpecHistory == Init /\ [][NextHistory]_vars

----------------------------------------------------------------------------
(* Bounds of the scene exploration *)

\* local ids handed out by crypto.randomUUID()
MaxIds == 4

\* documents the store creates
MaxDocs == 2

\* handlers suspended at a gateway call at the same time
MaxPending == 2

\* saveToHistory calls explored when the scene is edited
MaxSceneCommits == 3

----------------------------------------------------------------------------
(* Entities *)

Min(S) == CHOOSE x \in S : \A y \in S : x <= y

\* Array.prototype.findIndex, 0 for "not found"
FindIndex(seq, id) ==
    LET S == {i \in DOMAIN seq : seq[i].id = id}
    IN  IF S = {} THEN 0 ELSE Min(S)

\* objects.find(obj => obj.object === mesh), as an index
FindByMesh(objs, mesh) ==
    LET S == {i \in DOMAIN objs : objs[i].mesh = mesh}
    IN  IF S = {} THEN 0 ELSE Min(S)

\* Array.prototype.filter
Filter(seq, Keep(_)) == SelectSeq(seq, Keep)

\* { ...rec, ...patch }
Merge(rec, patch) ==
    [f \in DOMAIN rec |-> IF f \in DOMAIN patch THEN patch[f] ELSE rec[f]]

\* the object a handler finds is locked itself, or its group is locked:
\* `if (o.locked) return; if (o.groupId) { group = ...; if (group?.locked) return }`
LockedIn(objs, grps, i) ==
    \/ objs[i].locked
    \/ /\ objs[i].groupId # NoId
       /\ FindIndex(grps, objs[i].groupId) # 0
       /\ grps[FindIndex(grps, objs[i].groupId)].locked

\* isObjectLocked(objectId), on the current store
isObjectLocked(id) ==
    /\ FindIndex(objects, id) # 0
    /\ LockedIn(objects, groups, FindIndex(objects, id))

\* canSelectObject(object)
canSelectObject(mesh) ==
    IF FindByMesh(objects, mesh) # 0
    THEN ~isObjectLocked(objects[FindByMesh(objects, mesh)].id)
    ELSE TRUE

\* the scene-object record of addObject, duplicateObject and the inbound
\* snapshot; `type` is object.type and `geometry` the class of mesh.geometry
SceneObject(id, mesh, name, visible, locked, groupId, firestoreId, type, geometry) ==
    [id |-> id, mesh |-> mesh, name |-> name, visible |-> visible,
     locked |-> locked, groupId |-> groupId, firestoreId |-> firestoreId,
     type |-> type, geometry |-> geometry]

\* objectToFirestore, with the fields the handlers overwrite
objectToFirestore(obj, userId, projectId) ==
    [name |-> obj.name, type |-> obj.type, geometry |-> obj.geometry,
     visible |-> obj.visible, locked |-> obj.locked, groupId |-> obj.groupId,
     userId |-> userId, projectId |-> projectId]

\* firestoreToObject returns a mesh for the types 'Mesh' and 'CustomMesh'
\* and null for every other type
firestoreToObjectIsNull(doc) == doc.type \notin {"Mesh", "CustomMesh"}

----------------------------------------------------------------------------
(* Persistence gateway *)

\* a handler suspended at `await <gateway call>`
Call(op, id, coll, kind, doc, data, st) ==
    [op |-> op, id |-> id, coll |-> coll, kind |-> kind, doc |-> doc,
     data |-> data, st |-> st, project |-> currentProjectId,
     user |-> currentUserId, status |-> "sent", stage |-> 1]

RemoveAt(seq, i) == SubSeq(seq, 1, i - 1) \o SubSeq(seq, i + 1, Len(seq))

\* the documents of a collection after addDoc / updateDoc / deleteDoc
ApplyCreate(coll, c, docId) == Append(coll, [id |-> docId] @@ c.data)

ApplyUpdate(coll, c) ==
    [k \in DOMAIN coll |->
        IF coll[k].id = c.doc /\ coll[k].projectId = c.project
        THEN Merge(coll[k], c.data @@ [userId |-> c.user, projectId |-> c.project])
        ELSE coll[k]]

ApplyDelete(coll, c) ==
    SelectSeq(coll, LAMBDA d : ~(d.id = c.doc /\ d.projectId = c.project))

\* updateDoc rejects when the document does not exist
DocExists(coll, c) ==
    \E k \in DOMAIN coll : coll[k].id = c.doc /\ coll[k].projectId = c.project

CollectionOf(name) ==
    CASE name = "objects" -> remoteObjects
      [] name = "groups"  -> remoteGroups
      [] name = "lights"  -> remoteLights

AppliedTo(c) ==
    CASE c.kind = "create" -> ApplyCreate(CollectionOf(c.coll), c, nextDoc)
      [] c.kind = "update" -> ApplyUpdate(CollectionOf(c.coll), c)
      [] c.kind = "delete" -> ApplyDelete(CollectionOf(c.coll), c)

\* The document store carries out the call of pending[i]: addDoc, updateDoc
\* or deleteDoc takes effect.  A listener of the collection has a snapshot
\* to receive from then on; the handler is resumed in a later step.
GatewayApply(i) ==
    LET c == pending[i] IN
    /\ c.status = "sent"
    /\ c.kind \in {"create", "update", "delete"}
    /\ c.kind = "update" => DocExists(CollectionOf(c.coll), c)
    /\ c.kind = "create" => nextDoc <= DocId(MaxDocs)
    /\ remoteObjects' = IF c.coll = "objects" THEN AppliedTo(c) ELSE remoteObjects
    /\ remoteGroups' = IF c.coll = "groups" THEN AppliedTo(c) ELSE remoteGroups
    /\ remoteLights' = IF c.coll = "lights" THEN AppliedTo(c) ELSE remoteLights
    /\ nextDoc' = IF c.kind = "create" THEN nextDoc + 1 ELSE nextDoc
    /\ undelivered' = IF subscribed.project = c.project /\ subscribed.user = c.user
                      THEN [undelivered EXCEPT ![c.coll] = TRUE]
                      ELSE undelivered
    /\ pending' = [pending EXCEPT ![i].status = "ok",
                                  ![i].doc = IF c.kind = "create" THEN nextDoc ELSE c.doc]
    /\ last' = [op |-> "gateway", id |-> c.id]
    /\ UNCHANGED <<sceneVars, modeVars, editVars, historyVars, geom, hasUnsavedChanges,
                   projectVars, timers, nextId, commits, undoCalls>>

----------------------------------------------------------------------------
(* Project context and inbound snapshots *)

NotSubscribed == [project |-> NoId, user |-> NoId]

Collections == <<"objects", "groups", "lights">>

\* the store's three unsubscribe fields, all undefined
NoneHeld == [c \in {"objects", "groups", "lights"} |-> NoId]

\* a variant of the release that leaves the lights listener attached
ReleasedButLights(active, held) ==
    {l \in active : held.objects # l.serial /\ held.groups # l.serial}

\* `if (state.unsubscribeObjects) state.unsubscribeObjects()` and the same
\* for groups and lights: the listeners attached that are left when the
\* ones the store holds are detached
Released(active, held) ==
    {l \in active : \A c \in DOMAIN held : held[c] # l.serial}

\* subscribeToObjects, subscribeToGroups, subscribeToLights: onSnapshot
\* attaches one listener per collection (the calls are taken not to throw)
Subscribe(made, userId, projectId) ==
    {[serial |-> made + k, coll |-> Collections[k], project |-> projectId,
      user |-> userId] : k \in 1..3}

\* a listener of the collection is attached for the query the snapshots
\* are computed from
Listening(coll) ==
    \E l \in listeners.active :
        /\ l.coll = coll
        /\ l.project = subscribed.project /\ l.user = subscribed.user
        /\ subscribed.project # NoId

\* setCurrentProject(projectId, userId): releases the subscriptions, clears
\* the entity lists and the selection, and subscribes to the three
\* collections of the new project; each subscription delivers a first
\* snapshot.  The history stack is not touched.
SetCurrentProject(projectId, userId) ==
    LET left == Released(listeners.active, unsubscribe)
        opens == projectId # NoId /\ userId # NoId
    IN
    /\ objects' = <<>>
    /\ groups' = <<>>
    /\ lights' = <<>>
    /\ selectedObject' = NoMesh
    /\ selectedLight' = NoId
    /\ currentProjectId' = projectId
    /\ currentUserId' = userId
    /\ subscribed' = IF opens THEN [project |-> projectId, user |-> userId]
                     ELSE NotSubscribed
    /\ listeners' =
          IF opens
          THEN [active |-> left \cup Subscribe(listeners.made, userId, projectId),
                made |-> listeners.made + 3]
          ELSE [listeners EXCEPT !.active = left]
    /\ unsubscribe' = IF opens
                      THEN [objects |-> listeners.made + 1,
                            groups |-> listeners.made + 2,
                            lights |-> listeners.made + 3]
                      ELSE NoneHeld
    /\ undelivered' = [c \in DOMAIN undelivered |-> opens]
    /\ last' = [op |-> "setCurrentProject", id |-> projectId]
    /\ UNCHANGED <<modeVars, editVars, historyVars, geom, hasUnsavedChanges, timers, pending,
                   remoteObjects, remoteGroups, remoteLights, nextDoc, nextId,
                   commits, undoCalls>>

\* clearProjectData() of the store: releases the subscriptions and empties
\* the scene and the project context
ClearProjectData ==
    /\ objects' = <<>>
    /\ groups' = <<>>
    /\ lights' = <<>>
    /\ selectedObject' = NoMesh
    /\ selectedLight' = NoId
    /\ currentProjectId' = NoId
    /\ currentUserId' = NoId
    /\ hasUnsavedChanges' = FALSE
    /\ subscribed' = NotSubscribed
    /\ listeners' = [listeners EXCEPT
                        !.active = Released(listeners.active, unsubscribe)]
    /\ unsubscribe' = NoneHeld
    /\ undelivered' = [c \in DOMAIN undelivered |-> FALSE]
    /\ last' = [op |-> "clearProjectData", id |-> NoId]
    /\ UNCHANGED <<modeVars, editVars, historyVars, geom, timers, pending,
                   remoteObjects, remoteGroups, remoteLights, nextDoc, nextId,
                   commits, undoCalls>>

\* the documents a listener's query matches
Scoped(coll) ==
    SelectSeq(coll, LAMBDA d : d.userId = subscribed.user
                               /\ d.projectId = subscribed.project)

Reverse(seq) == [k \in DOMAIN seq |-> seq[Len(seq) + 1 - k]]

\* subscribeToObjects: the scoped documents sorted by createdAt, newest first
ObjectsSnapshot == Reverse(Scoped(remoteObjects))

\* subscribeToGroups, subscribeToLights: these documents carry no createdAt,
\* the comparator returns 0 and the query's order (by document id) stays
GroupsSnapshot == Scoped(remoteGroups)
LightsSnapshot == Scoped(remoteLights)

\* the objects callback of setCurrentProject: one scene object per document
\* firestoreToObject can rebuild, each with a new local id and a new mesh
ObjectsFromSnapshot(docs, firstId) ==
    LET kept == SelectSeq(docs, LAMBDA d : ~firestoreToObjectIsNull(d) /\ d.id # NoId)
    IN  [k \in DOMAIN kept |->
            SceneObject(firstId + k - 1, <<firstId + k - 1, 0>>, kept[k].name,
                        kept[k].visible, kept[k].locked, kept[k].groupId,
                        kept[k].id, "Mesh", kept[k].geometry)]

\* the groups callback: `{...group, id: group.id || uuid, firestoreId: group.id}`
GroupsFromSnapshot(docs) ==
    [k \in DOMAIN docs |->
        [id |-> docs[k].id, name |-> docs[k].name, expanded |-> docs[k].expanded,
         visible |-> docs[k].visible, locked |-> docs[k].locked,
         objectIds |-> docs[k].objectIds, firestoreId |-> docs[k].id]]

\* the lights callback
LightsFromSnapshot(docs) ==
    [k \in DOMAIN docs |->
        [id |-> docs[k].id, name |-> docs[k].name, type |-> docs[k].type,
         intensity |-> docs[k].intensity, visible |-> docs[k].visible,
         object |-> createLight(docs[k].type), firestoreId |-> docs[k].id]]

\* the objects callback, were it to keep the local objects that have no
\* persisted id yet
DeliverObjectsMerging ==
    LET new == ObjectsFromSnapshot(ObjectsSnapshot, nextId) IN
    /\ Listening("objects")
    /\ undelivered.objects
    /\ nextId + Len(new) - 1 <= MaxIds
    /\ objects' = new \o SelectSeq(objects, LAMBDA o : o.firestoreId = NoId)
    /\ nextId' = nextId + Len(new)
    /\ geom' = WithBuffers(geom, {new[k].mesh : k \in DOMAIN new},
                           [h \in {new[k].mesh : k \in DOMAIN new} |->
                               new[h[1] - nextId + 1].geometry])
    /\ undelivered' = [undelivered EXCEPT !.objects = FALSE]
    /\ last' = [op |-> "objectsSnapshot", id |-> NoId]
    /\ UNCHANGED <<groups, lights, selectedObject, selectedLight, modeVars, editVars,
                   historyVars, hasUnsavedChanges, projectVars, timers, pending,
                   remoteObjects, remoteGroups, remoteLights, nextDoc, commits,
                   undoCalls>>

\* onSnapshot fires for the objects collection
DeliverObjects ==
    LET new == ObjectsFromSnapshot(ObjectsSnapshot, nextId) IN
    /\ Listening("objects")
    /\ undelivered.objects
    /\ nextId + Len(new) - 1 <= MaxIds
    /\ objects' = new
    /\ nextId' = nextId + Len(new)
    /\ geom' = WithBuffers(geom, {new[k].mesh : k \in DOMAIN new},
                           [h \in {new[k].mesh : k \in DOMAIN new} |->
                               new[h[1] - nextId + 1].geometry])
    /\ undelivered' = [undelivered EXCEPT !.objects = FALSE]
    /\ last' = [op |-> "objectsSnapshot", id |-> NoId]
    /\ UNCHANGED <<groups, lights, selectedObject, selectedLight, modeVars, editVars,
                   historyVars, hasUnsavedChanges, projectVars, timers, pending,
                   remoteObjects, remoteGroups, remoteLights, nextDoc, commits,
                   undoCalls>>

\* onSnapshot fires for the groups collection
DeliverGroups ==
    /\ Listening("groups")
    /\ undelivered.groups
    /\ groups' = GroupsFromSnapshot(GroupsSnapshot)
    /\ undelivered' = [undelivered EXCEPT !.groups = FALSE]
    /\ last' = [op |-> "groupsSnapshot", id |-> NoId]
    /\ UNCHANGED <<objects, lights, selectedObject, selectedLight, modeVars, editVars,
                   historyVars, geom, hasUnsavedChanges, projectVars, timers, pending,
                   remoteObjects, remoteGroups, remoteLights, nextDoc, nextId,
                   commits, undoCalls>>

\* onSnapshot fires for the lights collection
DeliverLights ==
    /\ Listening("lights")
    /\ undelivered.lights
    /\ lights' = LightsFromSnapshot(LightsSnapshot)
    /\ undelivered' = [undelivered EXCEPT !.lights = FALSE]
    /\ last' = [op |-> "lightsSnapshot", id |-> NoId]
    /\ UNCHANGED <<objects, groups, selectedObject, selectedLight, modeVars, editVars,
                   historyVars, geom, hasUnsavedChanges, projectVars, timers, pending,
                   remoteObjects, remoteGroups, remoteLights, nextDoc, nextId,
                   commits, undoCalls>>

----------------------------------------------------------------------------
(* Deferred commits *)

\* a queued `setTimeout(() => get().saveToHistory(), 0)` runs
TimerFire ==
    /\ timers > 0
    /\ commits < MaxSceneCommits
    /\ SaveToHistoryOn(Captured)
    /\ timers' = timers - 1
    /\ last' = [op |-> "saveToHistory", id |-> NoId]
    /\ UNCHANGED <<sceneVars, modeVars, editVars, projectVars, remoteVars, pending,
                   nextId, undoCalls>>

\* the pending list without the settled call i
Settled(i) == RemoveAt(pending, i)

\* a handler may suspend at a gateway call
CanSuspend == Len(pending) < MaxPending

HasContext == currentProjectId # NoId /\ currentUserId # NoId

\* the documents getObjects, getGroups, getLights return for a user and a
\* project
ScopedTo(coll, userId, projectId) ==
    SelectSeq(coll, LAMBDA d : d.userId = userId /\ d.projectId = projectId)

\* loadProjectData(): returns at once without a project context; else reads
\* the three collections of the project that is current at the call
LoadProjectData ==
    IF ~HasContext
    THEN /\ last' = [op |-> "loadProjectDataNoop", id |-> NoId]
         /\ UNCHANGED <<sceneVars, modeVars, editVars, historyVars, geom,
                        hasUnsavedChanges, projectVars, remoteVars, timers,
                        pending, nextId, commits, undoCalls>>
    ELSE /\ CanSuspend
         /\ pending' = Append(pending,
                Call("loadProjectData", NoId, "all", "read", NoId, NoDrag,
                     NoCapture))
         /\ last' = [op |-> "loadProjectData", id |-> currentProjectId]
         /\ UNCHANGED <<sceneVars, modeVars, editVars, historyVars, geom,
                        hasUnsavedChanges, projectVars, remoteVars, timers,
                        nextId, commits, undoCalls>>

\* getObjects, getGroups and getLights are answered (the three queries are
\* taken to be answered at one moment)
LoadProjectDataRead(i) ==
    LET c == pending[i] IN
    /\ c.op = "loadProjectData"
    /\ c.status = "sent"
    /\ pending' =
          [pending EXCEPT
              ![i].status = "ok",
              ![i].data =
                  [objects |-> Reverse(ScopedTo(remoteObjects, c.user, c.project)),
                   groups |-> ScopedTo(remoteGroups, c.user, c.project),
                   lights |-> ScopedTo(remoteLights, c.user, c.project)]]
    /\ last' = [op |-> "gatewayRead", id |-> NoId]
    /\ UNCHANGED <<sceneVars, modeVars, editVars, historyVars, geom,
                   hasUnsavedChanges, projectVars, remoteVars, timers, nextId,
                   commits, undoCalls>>

\* loadProjectData after `await Promise.all([...])`: the three lists are
\* replaced by what was read and the scene counts as saved; when a read
\* rejected, the catch block logs and nothing else changes
LoadProjectDataSettled(i, ok) ==
    LET c == pending[i]
        new == ObjectsFromSnapshot(c.data.objects, nextId)
    IN
    /\ c.op = "loadProjectData"
    /\ c.status = IF ok THEN "ok" ELSE "sent"
    /\ IF ok
       THEN /\ nextId + Len(new) - 1 <= MaxIds
            /\ objects' = new
            /\ groups' = GroupsFromSnapshot(c.data.groups)
            /\ lights' = LightsFromSnapshot(c.data.lights)
            /\ nextId' = nextId + Len(new)
            /\ geom' = WithBuffers(geom, {new[k].mesh : k \in DOMAIN new},
                                   [h \in {new[k].mesh : k \in DOMAIN new} |->
                                       new[h[1] - nextId + 1].geometry])
            /\ hasUnsavedChanges' = FALSE
       ELSE UNCHANGED <<objects, groups, lights, nextId, geom,
                        hasUnsavedChanges>>
    /\ pending' = Settled(i)
    /\ last' = [op |-> IF ok THEN "loadProjectDataResolved"
                       ELSE "loadProjectDataRejected",
                id |-> c.project, promise |-> "fulfilled"]
    /\ UNCHANGED <<selectedObject, selectedLight, modeVars, editVars,
                   historyVars, projectVars, remoteVars, timers, commits,
                   undoCalls>>

----------------------------------------------------------------------------
(* Objects *)

\* addObject(object, name): the object is appended at once; with a project
\* context the handler then awaits saveObject, else it queues the commit
AddObject(name, type, geometry) ==
    LET newObject == SceneObject(nextId, <<nextId, 0>>, name, TRUE, FALSE,
                                 NoId, NoId, type, geometry)
    IN
    /\ nextId <= MaxIds
    /\ HasContext => CanSuspend
    /\ objects' = Append(objects, newObject)
    /\ nextId' = nextId + 1
    /\ IF HasContext
       THEN /\ pending' = Append(pending,
                    Call("addObject", newObject.id, "objects", "create", NoId,
                         objectToFirestore(newObject, currentUserId, currentProjectId),
                         NoCapture))
            /\ UNCHANGED timers
       ELSE /\ timers' = timers + 1
            /\ UNCHANGED pending
    /\ geom' = IF type = "Mesh"
               THEN WithBuffers(geom, {newObject.mesh},
                                [h \in {newObject.mesh} |-> geometry])
               ELSE geom
    /\ last' = [op |-> "addObject", id |-> newObject.id]
    /\ UNCHANGED <<groups, lights, selectedObject, selectedLight, modeVars, editVars,
                   historyVars, hasUnsavedChanges, projectVars, remoteVars,
                   commits, undoCalls>>

\* `objects.map(obj => obj.id === id ? { ...obj, firestoreId } : obj)`
WithFirestoreId(seq, id, firestoreId) ==
    [k \in DOMAIN seq |->
        IF seq[k].id = id THEN [seq[k] EXCEPT !.firestoreId = firestoreId]
        ELSE seq[k]]

\* addObject after saveObject resolved: the id is attached to the object
\* (when it is still in the list) and the commit is queued
AddObjectResolved(i) ==
    LET c == pending[i] IN
    /\ c.op = "addObject" /\ c.status = "ok"
    /\ objects' = WithFirestoreId(objects, c.id, c.doc)
    /\ timers' = timers + 1
    /\ pending' = Settled(i)
    /\ last' = [op |-> "addObjectResolved", id |-> c.id]
    /\ UNCHANGED <<groups, lights, selectedObject, selectedLight, modeVars, editVars,
                   historyVars, geom, hasUnsavedChanges, projectVars, remoteVars,
                   nextId, commits, undoCalls>>

\* addObject after saveObject rejected: the error is logged, the object
\* stays, the commit is queued
AddObjectRejected(i) ==
    LET c == pending[i] IN
    /\ c.op = "addObject" /\ c.status = "sent"
    /\ timers' = timers + 1
    /\ pending' = Settled(i)
    /\ last' = [op |-> "addObjectRejected", id |-> c.id,
                promise |-> "fulfilled"]
    /\ UNCHANGED <<sceneVars, modeVars, editVars, historyVars, geom, hasUnsavedChanges,
                   projectVars, remoteVars, nextId, commits, undoCalls>>

\* what removeObject writes: `state` without the object, the groups of
\* `state` without its id, and the selection of `state` unless it was the
\* removed mesh
RemoveObjectFrom(st, id) ==
    LET objectToRemove == st.objects[FindIndex(st.objects, id)] IN
    [objects |-> SelectSeq(st.objects, LAMBDA o : o.id # id),
     groups  |-> [k \in DOMAIN st.groups |->
                    [st.groups[k] EXCEPT
                       !.objectIds = SelectSeq(@, LAMBDA objId : objId # id)]],
     selectedObject |-> IF objectToRemove.mesh = st.selectedObject
                        THEN NoMesh ELSE st.selectedObject]

\* removeObject(id): nothing happens for an unknown or locked object; an
\* object with a firestoreId in a project is deleted remotely first and the
\* handler awaits that; else the object is removed at once
RemoveObject(id) ==
    LET state == Captured
        i == FindIndex(state.objects, id)
    IN
    IF i = 0 \/ LockedIn(state.objects, state.groups, i)
    THEN /\ last' = [op |-> "removeObjectNoop", id |-> id]
         /\ UNCHANGED <<sceneVars, modeVars, editVars, historyVars, geom, hasUnsavedChanges,
                        projectVars, remoteVars, timers, pending, nextId,
                        commits, undoCalls>>
    ELSE IF state.objects[i].firestoreId # NoId /\ currentProjectId # NoId
    THEN /\ CanSuspend
         /\ pending' = Append(pending,
                Call("removeObject", id, "objects", "delete",
                     state.objects[i].firestoreId, <<>>, state))
         /\ last' = [op |-> "removeObject", id |-> id]
         /\ UNCHANGED <<sceneVars, modeVars, editVars, historyVars, geom, hasUnsavedChanges,
                        projectVars, remoteVars, timers, nextId, commits,
                        undoCalls>>
    ELSE /\ objects' = RemoveObjectFrom(state, id).objects
         /\ groups' = RemoveObjectFrom(state, id).groups
         /\ selectedObject' = RemoveObjectFrom(state, id).selectedObject
         /\ timers' = timers + 1
         /\ last' = [op |-> "removeObject", id |-> id]
         /\ UNCHANGED <<lights, selectedLight, modeVars, editVars, historyVars, geom,
                        hasUnsavedChanges, projectVars, remoteVars, pending,
                        nextId, commits, undoCalls>>

\* removeObject after deleteObject settled, resolved or rejected alike
RemoveObjectSettled(i, ok) ==
    LET c == pending[i] IN
    /\ c.op = "removeObject"
    /\ c.status = IF ok THEN "ok" ELSE "sent"
    /\ objects' = RemoveObjectFrom(c.st, c.id).objects
    /\ groups' = RemoveObjectFrom(c.st, c.id).groups
    /\ selectedObject' = RemoveObjectFrom(c.st, c.id).selectedObject
    /\ timers' = timers + 1
    /\ pending' = Settled(i)
    /\ last' = [op |-> IF ok THEN "removeObjectResolved" ELSE "removeObjectRejected",
                id |-> c.id, promise |-> "fulfilled"]
    /\ UNCHANGED <<lights, selectedLight, modeVars, editVars, historyVars, geom,
                   hasUnsavedChanges, projectVars, remoteVars, nextId, commits,
                   undoCalls>>

\* what toggleVisibility writes: the objects of `state` with the flag set,
\* and no selection when the selected mesh became invisible
ToggleVisibilityOn(st, id, newVisibility) ==
    LET updatedObjects ==
            [k \in DOMAIN st.objects |->
                IF st.objects[k].id = id
                THEN [st.objects[k] EXCEPT !.visible = newVisibility]
                ELSE st.objects[k]]
        t == FindIndex(updatedObjects, id)
    IN  [objects |-> updatedObjects,
         selectedObject |->
            IF t # 0 /\ ~updatedObjects[t].visible
               /\ updatedObjects[t].mesh = st.selectedObject
            THEN NoMesh ELSE st.selectedObject]

\* toggleVisibility(id)
ToggleVisibility(id) ==
    LET state == Captured
        i == FindIndex(state.objects, id)
    IN
    IF i = 0 \/ LockedIn(state.objects, state.groups, i)
    THEN /\ last' = [op |-> "toggleVisibilityNoop", id |-> id]
         /\ UNCHANGED <<sceneVars, modeVars, editVars, historyVars, geom, hasUnsavedChanges,
                        projectVars, remoteVars, timers, pending, nextId,
                        commits, undoCalls>>
    ELSE IF state.objects[i].firestoreId # NoId /\ HasContext
    THEN /\ CanSuspend
         /\ pending' = Append(pending,
                Call("toggleVisibility", id, "objects", "update",
                     state.objects[i].firestoreId,
                     [visible |-> ~state.objects[i].visible], state))
         /\ last' = [op |-> "toggleVisibility", id |-> id]
         /\ UNCHANGED <<sceneVars, modeVars, editVars, historyVars, geom, hasUnsavedChanges,
                        projectVars, remoteVars, timers, nextId, commits,
                        undoCalls>>
    ELSE /\ objects' = ToggleVisibilityOn(state, id, ~state.objects[i].visible).objects
         /\ selectedObject' =
                ToggleVisibilityOn(state, id, ~state.objects[i].visible).selectedObject
         /\ hasUnsavedChanges' = TRUE
         /\ last' = [op |-> "toggleVisibility", id |-> id]
         /\ UNCHANGED <<groups, lights, selectedLight, modeVars, editVars, historyVars, geom,
                        projectVars, remoteVars, timers, pending, nextId,
                        commits, undoCalls>>

\* toggleVisibility after updateObject settled, resolved or rejected alike
ToggleVisibilitySettled(i, ok) ==
    LET c == pending[i] IN
    /\ c.op = "toggleVisibility"
    /\ c.status = IF ok THEN "ok" ELSE "sent"
    /\ objects' = ToggleVisibilityOn(c.st, c.id, c.data.visible).objects
    /\ selectedObject' = ToggleVisibilityOn(c.st, c.id, c.data.visible).selectedObject
    /\ hasUnsavedChanges' = TRUE
    /\ pending' = Settled(i)
    /\ last' = [op |-> IF ok THEN "toggleVisibilityResolved"
                       ELSE "toggleVisibilityRejected",
                id |-> c.id, promise |-> "fulfilled"]
    /\ UNCHANGED <<groups, lights, selectedLight, modeVars, editVars, historyVars, geom,
                   projectVars, remoteVars, timers, nextId, commits, undoCalls>>

\* what toggleLock writes: the objects of `state` with the flag set, and no
\* selection when the selected mesh became locked
ToggleLockOn(st, id, newLockState) ==
    LET updatedObjects ==
            [k \in DOMAIN st.objects |->
                IF st.objects[k].id = id
                THEN [st.objects[k] EXCEPT !.locked = newLockState]
                ELSE st.objects[k]]
        t == FindIndex(updatedObjects, id)
    IN  [objects |-> updatedObjects,
         selectedObject |->
            IF t # 0 /\ updatedObjects[t].locked
               /\ updatedObjects[t].mesh = st.selectedObject
            THEN NoMesh ELSE st.selectedObject]

\* the group of the object is locked (toggleLock does not look at the
\* object's own flag)
GroupLockedIn(objs, grps, i) ==
    /\ objs[i].groupId # NoId
    /\ FindIndex(grps, objs[i].groupId) # 0
    /\ grps[FindIndex(grps, objs[i].groupId)].locked

\* toggleLock(id)
ToggleLock(id) ==
    LET state == Captured
        i == FindIndex(state.objects, id)
    IN
    IF i = 0 \/ GroupLockedIn(state.objects, state.groups, i)
    THEN /\ last' = [op |-> "toggleLockNoop", id |-> id]
         /\ UNCHANGED <<sceneVars, modeVars, editVars, historyVars, geom, hasUnsavedChanges,
                        projectVars, remoteVars, timers, pending, nextId,
                        commits, undoCalls>>
    ELSE IF state.objects[i].firestoreId # NoId /\ HasContext
    THEN /\ CanSuspend
         /\ pending' = Append(pending,
                Call("toggleLock", id, "objects", "update",
                     state.objects[i].firestoreId,
                     [locked |-> ~state.objects[i].locked], state))
         /\ last' = [op |-> "toggleLock", id |-> id]
         /\ UNCHANGED <<sceneVars, modeVars, editVars, historyVars, geom, hasUnsavedChanges,
                        projectVars, remoteVars, timers, nextId, commits,
                        undoCalls>>
    ELSE /\ objects' = ToggleLockOn(state, id, ~state.objects[i].locked).objects
         /\ selectedObject' =
                ToggleLockOn(state, id, ~state.objects[i].locked).selectedObject
         /\ hasUnsavedChanges' = TRUE
         /\ last' = [op |-> "toggleLock", id |-> id]
         /\ UNCHANGED <<groups, lights, selectedLight, modeVars, editVars, historyVars, geom,
                        projectVars, remoteVars, timers, pending, nextId,
                        commits, undoCalls>>

\* toggleLock after updateObject settled, resolved or rejected alike
ToggleLockSettled(i, ok) ==
    LET c == pending[i] IN
    /\ c.op = "toggleLock"
    /\ c.status = IF ok THEN "ok" ELSE "sent"
    /\ objects' = ToggleLockOn(c.st, c.id, c.data.locked).objects
    /\ selectedObject' = ToggleLockOn(c.st, c.id, c.data.locked).selectedObject
    /\ hasUnsavedChanges' = TRUE
    /\ pending' = Settled(i)
    /\ last' = [op |-> IF ok THEN "toggleLockResolved" ELSE "toggleLockRejected",
                id |-> c.id, promise |-> "fulfilled"]
    /\ UNCHANGED <<groups, lights, selectedLight, modeVars, editVars, historyVars, geom,
                   projectVars, remoteVars, timers, nextId, commits, undoCalls>>

\* what updateObjectName writes: the objects of `state` with the new name
RenameIn(st, id, name) ==
    [k \in DOMAIN st.objects |->
        IF st.objects[k].id = id THEN [st.objects[k] EXCEPT !.name = name]
        ELSE st.objects[k]]

\* updateObjectName(id, name)
UpdateObjectName(id, name) ==
    LET state == Captured
        i == FindIndex(state.objects, id)
    IN
    IF i = 0 \/ LockedIn(state.objects, state.groups, i)
    THEN /\ last' = [op |-> "updateObjectNameNoop", id |-> id]
         /\ UNCHANGED <<sceneVars, modeVars, editVars, historyVars, geom, hasUnsavedChanges,
                        projectVars, remoteVars, timers, pending, nextId,
                        commits, undoCalls>>
    ELSE IF state.objects[i].firestoreId # NoId /\ HasContext
    THEN /\ CanSuspend
         /\ pending' = Append(pending,
                Call("updateObjectName", id, "objects", "update",
                     state.objects[i].firestoreId, [name |-> name], state))
         /\ last' = [op |-> "updateObjectName", id |-> id]
         /\ UNCHANGED <<sceneVars, modeVars, editVars, historyVars, geom, hasUnsavedChanges,
                        projectVars, remoteVars, timers, nextId, commits,
                        undoCalls>>
    ELSE /\ objects' = RenameIn(state, id, name)
         /\ hasUnsavedChanges' = TRUE
         /\ last' = [op |-> "updateObjectName", id |-> id]
         /\ UNCHANGED <<groups, lights, selectedObject, selectedLight, modeVars, editVars,
                        historyVars, geom, projectVars, remoteVars, timers, pending,
                        nextId, commits, undoCalls>>

\* updateObjectName's continuation, were it to drop the rename on a rejection
UpdateObjectNameReverting(i, ok) ==
    LET c == pending[i] IN
    /\ c.op = "updateObjectName"
    /\ c.status = IF ok THEN "ok" ELSE "sent"
    /\ objects' = IF ok THEN RenameIn(c.st, c.id, c.data.name) ELSE c.st.objects
    /\ hasUnsavedChanges' = TRUE
    /\ pending' = Settled(i)
    /\ last' = [op |-> IF ok THEN "updateObjectNameResolved"
                       ELSE "updateObjectNameRejected",
                id |-> c.id, promise |-> "fulfilled"]
    /\ UNCHANGED <<groups, lights, selectedObject, selectedLight, modeVars, editVars,
                   historyVars, geom, projectVars, remoteVars, timers, nextId,
                   commits, undoCalls>>

\* updateObjectName after updateObject settled, resolved or rejected alike
UpdateObjectNameSettled(i, ok) ==
    LET c == pending[i] IN
    /\ c.op = "updateObjectName"
    /\ c.status = IF ok THEN "ok" ELSE "sent"
    /\ objects' = RenameIn(c.st, c.id, c.data.name)
    /\ hasUnsavedChanges' = TRUE
    /\ pending' = Settled(i)
    /\ last' = [op |-> IF ok THEN "updateObjectNameResolved"
                       ELSE "updateObjectNameRejected",
                id |-> c.id, promise |-> "fulfilled"]
    /\ UNCHANGED <<groups, lights, selectedObject, selectedLight, modeVars, editVars,
                   historyVars, geom, projectVars, remoteVars, timers, nextId,
                   commits, undoCalls>>

\* the fields updateObjectProperties sends: objectToFirestore of the selected
\* object, with groupId only when the object has one
PropertiesPatch(obj, userId, projectId) ==
    LET data == objectToFirestore(obj, userId, projectId)
    IN  [f \in (DOMAIN data) \ (IF obj.groupId = NoId THEN {"groupId"} ELSE {})
            |-> data[f]]

\* updateObjectProperties(): writes the selected object to the store when it
\* is not locked; local state only gets hasUnsavedChanges
UpdateObjectProperties ==
    LET i == FindByMesh(objects, selectedObject) IN
    IF selectedObject = NoMesh \/ i = 0 \/ isObjectLocked(objects[i].id)
    THEN /\ last' = [op |-> "updateObjectPropertiesNoop", id |-> NoId]
         /\ UNCHANGED <<sceneVars, modeVars, editVars, historyVars, geom, hasUnsavedChanges,
                        projectVars, remoteVars, timers, pending, nextId,
                        commits, undoCalls>>
    ELSE IF objects[i].firestoreId # NoId /\ HasContext
    THEN /\ CanSuspend
         /\ pending' = Append(pending,
                Call("updateObjectProperties", objects[i].id, "objects", "update",
                     objects[i].firestoreId,
                     PropertiesPatch(objects[i], currentUserId, currentProjectId),
                     NoCapture))
         /\ last' = [op |-> "updateObjectProperties", id |-> objects[i].id]
         /\ UNCHANGED <<sceneVars, modeVars, editVars, historyVars, geom, hasUnsavedChanges,
                        projectVars, remoteVars, timers, nextId, commits,
                        undoCalls>>
    ELSE /\ hasUnsavedChanges' = TRUE
         /\ last' = [op |-> "updateObjectProperties", id |-> objects[i].id]
         /\ UNCHANGED <<sceneVars, modeVars, editVars, historyVars, geom, projectVars,
                        remoteVars, timers, pending, nextId, commits, undoCalls>>

\* updateObjectProperties after updateObject settled
UpdateObjectPropertiesSettled(i, ok) ==
    LET c == pending[i] IN
    /\ c.op = "updateObjectProperties"
    /\ c.status = IF ok THEN "ok" ELSE "sent"
    /\ hasUnsavedChanges' = TRUE
    /\ pending' = Settled(i)
    /\ last' = [op |-> IF ok THEN "updateObjectPropertiesResolved"
                       ELSE "updateObjectPropertiesRejected",
                id |-> c.id, promise |-> "fulfilled"]
    /\ UNCHANGED <<sceneVars, modeVars, editVars, historyVars, geom, projectVars, remoteVars,
                   timers, nextId, commits, undoCalls>>

\* the geometry kinds for which edge mode is refused and vertex mode is
\* switched on at selection: SphereGeometry, CylinderGeometry, ConeGeometry
SmoothKinds == {"sphere", "cylinder", "cone"}

\* setEditMode(mode): edge mode is refused while a sphere, cylinder or cone
\* of the scene is selected; any other call sets the current and the
\* persistent mode
SetEditMode(mode) ==
    LET i == FindByMesh(objects, selectedObject) IN
    IF /\ mode = "edge"
       /\ i # 0
       /\ objects[i].type = "Mesh"
       /\ objects[i].geometry \in SmoothKinds
    THEN /\ last' = [op |-> "setEditModeNoop", id |-> NoId]
         /\ UNCHANGED <<sceneVars, modeVars, editVars, historyVars, geom,
                        hasUnsavedChanges, projectVars, remoteVars, timers,
                        pending, nextId, commits, undoCalls>>
    ELSE /\ editMode' = mode
         /\ persistentEditMode' = mode
         /\ last' = [op |-> "setEditMode", id |-> NoId]
         /\ UNCHANGED <<sceneVars, transformMode, editVars, historyVars, geom,
                        hasUnsavedChanges, projectVars, remoteVars, timers,
                        pending, nextId, commits, undoCalls>>

\* a variant of setSelectedObject in which the vertex mode of a sphere,
\* cylinder or cone wins over the persistent mode
SetSelectedObjectAutoFirst(mesh) ==
    IF mesh # NoMesh /\ ~canSelectObject(mesh)
    THEN /\ last' = [op |-> "setSelectedObjectNoop", id |-> mesh[1]]
         /\ UNCHANGED <<sceneVars, modeVars, editVars, historyVars, geom,
                        hasUnsavedChanges, projectVars, remoteVars, timers,
                        pending, nextId, commits, undoCalls>>
    ELSE LET i == FindByMesh(objects, mesh) IN
         /\ selectedObject' = mesh
         /\ editMode' =
              IF mesh = NoMesh THEN "null"
              ELSE IF i # 0 /\ objects[i].type = "Mesh"
                      /\ objects[i].geometry \in SmoothKinds
                   THEN "vertex"
              ELSE IF persistentEditMode # "null" THEN persistentEditMode
              ELSE editMode
         /\ transformMode' = IF mesh # NoMesh THEN transformMode ELSE "null"
         /\ last' = [op |-> "setSelectedObject", id |-> mesh[1]]
         /\ UNCHANGED <<objects, groups, lights, selectedLight,
                        persistentEditMode, editVars, historyVars, geom,
                        hasUnsavedChanges, projectVars, remoteVars, timers,
                        pending, nextId, commits, undoCalls>>

\* setSelectedObject(object)
SetSelectedObject(mesh) ==
    IF mesh # NoMesh /\ ~canSelectObject(mesh)
    THEN /\ last' = [op |-> "setSelectedObjectNoop", id |-> mesh[1]]
         /\ UNCHANGED <<sceneVars, modeVars, editVars, historyVars, geom, hasUnsavedChanges,
                        projectVars, remoteVars, timers, pending, nextId,
                        commits, undoCalls>>
    ELSE LET i == FindByMesh(objects, mesh) IN
         /\ selectedObject' = mesh
         /\ editMode' =
              IF mesh = NoMesh THEN "null"
              ELSE IF persistentEditMode # "null" THEN persistentEditMode
              ELSE IF i # 0 /\ objects[i].type = "Mesh"
                      /\ objects[i].geometry \in {"sphere", "cylinder", "cone"}
                   THEN "vertex"
              ELSE editMode
         /\ transformMode' = IF mesh # NoMesh THEN transformMode ELSE "null"
         /\ last' = [op |-> "setSelectedObject", id |-> mesh[1]]
         /\ UNCHANGED <<objects, groups, lights, selectedLight,
                        persistentEditMode, editVars, historyVars, geom, hasUnsavedChanges,
                        projectVars, remoteVars, timers, pending, nextId,
                        commits, undoCalls>>

----------------------------------------------------------------------------
(* Groups *)

\* Array.prototype.includes
Includes(seq, x) == \E k \in DOMAIN seq : seq[k] = x

\* `groups.map(g => g.id === id ? { ...g, firestoreId } : g)` and the like
SetField(seq, id, field, value) ==
    [k \in DOMAIN seq |->
        IF seq[k].id = id THEN [seq[k] EXCEPT ![field] = value] ELSE seq[k]]

\* the FirestoreGroup createGroup hands to saveGroup, with saveGroup's scoping
FirestoreGroup(group, userId, projectId) ==
    [name |-> group.name, expanded |-> group.expanded, visible |-> group.visible,
     locked |-> group.locked, objectIds |-> group.objectIds,
     userId |-> userId, projectId |-> projectId]

\* createGroup(name, objectIds): the group is appended and the named objects
\* point to it at once; with a project context the handler then awaits
\* saveGroup, else it commits
CreateGroup(name, objectIds) ==
    LET newGroup == [id |-> nextId, name |-> name, expanded |-> TRUE,
                     visible |-> TRUE, locked |-> FALSE, objectIds |-> objectIds,
                     firestoreId |-> NoId]
    IN
    /\ nextId <= MaxIds
    /\ IF HasContext THEN CanSuspend ELSE commits < MaxSceneCommits
    /\ nextId' = nextId + 1
    /\ LET st == [Captured EXCEPT
                    !.groups = Append(groups, newGroup),
                    !.objects = [k \in DOMAIN objects |->
                                    IF Includes(objectIds, objects[k].id)
                                    THEN [objects[k] EXCEPT !.groupId = newGroup.id]
                                    ELSE objects[k]]]
       IN  /\ groups' = st.groups
           /\ objects' = st.objects
           /\ IF HasContext
              THEN /\ pending' = Append(pending,
                          Call("createGroup", newGroup.id, "groups", "create", NoId,
                               FirestoreGroup(newGroup, currentUserId, currentProjectId),
                               NoCapture))
                   /\ UNCHANGED <<historyVars, geom, hasUnsavedChanges, commits>>
              ELSE /\ SaveToHistoryOn(st)
                   /\ UNCHANGED pending
    /\ last' = [op |-> "createGroup", id |-> newGroup.id]
    /\ UNCHANGED <<lights, selectedObject, selectedLight, modeVars, editVars, projectVars,
                   remoteVars, timers, undoCalls>>

\* createGroup after saveGroup settled: the id is attached when the call
\* resolved, and the state is committed either way
CreateGroupSettled(i, ok) ==
    LET c == pending[i]
        st == [Captured EXCEPT
                 !.groups = IF ok THEN SetField(groups, c.id, "firestoreId", c.doc)
                            ELSE groups]
    IN
    /\ c.op = "createGroup"
    /\ c.status = IF ok THEN "ok" ELSE "sent"
    /\ commits < MaxSceneCommits
    /\ groups' = st.groups
    /\ SaveToHistoryOn(st)
    /\ pending' = Settled(i)
    /\ last' = [op |-> IF ok THEN "createGroupResolved" ELSE "createGroupRejected",
                id |-> c.id, promise |-> "fulfilled"]
    /\ UNCHANGED <<objects, lights, selectedObject, selectedLight, modeVars, editVars,
                   projectVars, remoteVars, timers, nextId, undoCalls>>

\* what removeGroup writes: the groups of `state` without the group and the
\* objects of `state` without a reference to it
RemoveGroupFrom(st, groupId) ==
    [st EXCEPT
       !.groups = SelectSeq(st.groups, LAMBDA g : g.id # groupId),
       !.objects = [k \in DOMAIN st.objects |->
                       IF st.objects[k].groupId = groupId
                       THEN [st.objects[k] EXCEPT !.groupId = NoId]
                       ELSE st.objects[k]]]

\* removeGroup(groupId)
RemoveGroup(groupId) ==
    LET state == Captured
        g == FindIndex(state.groups, groupId)
    IN
    IF g = 0 \/ state.groups[g].locked
    THEN /\ last' = [op |-> "removeGroupNoop", id |-> groupId]
         /\ UNCHANGED <<sceneVars, modeVars, editVars, historyVars, geom, hasUnsavedChanges,
                        projectVars, remoteVars, timers, pending, nextId,
                        commits, undoCalls>>
    ELSE IF state.groups[g].firestoreId # NoId /\ currentProjectId # NoId
    THEN /\ CanSuspend
         /\ pending' = Append(pending,
                Call("removeGroup", groupId, "groups", "delete",
                     state.groups[g].firestoreId, <<>>, state))
         /\ last' = [op |-> "removeGroup", id |-> groupId]
         /\ UNCHANGED <<sceneVars, modeVars, editVars, historyVars, geom, hasUnsavedChanges,
                        projectVars, remoteVars, timers, nextId, commits,
                        undoCalls>>
    ELSE /\ commits < MaxSceneCommits
         /\ groups' = RemoveGroupFrom(state, groupId).groups
         /\ objects' = RemoveGroupFrom(state, groupId).objects
         /\ SaveToHistoryOn([Captured EXCEPT
                                !.groups = RemoveGroupFrom(state, groupId).groups,
                                !.objects = RemoveGroupFrom(state, groupId).objects])
         /\ last' = [op |-> "removeGroup", id |-> groupId]
         /\ UNCHANGED <<lights, selectedObject, selectedLight, modeVars, editVars,
                        projectVars, remoteVars, timers, pending, nextId,
                        undoCalls>>

\* removeGroup after deleteGroup settled, resolved or rejected alike
RemoveGroupSettled(i, ok) ==
    LET c == pending[i] IN
    /\ c.op = "removeGroup"
    /\ c.status = IF ok THEN "ok" ELSE "sent"
    /\ commits < MaxSceneCommits
    /\ groups' = RemoveGroupFrom(c.st, c.id).groups
    /\ objects' = RemoveGroupFrom(c.st, c.id).objects
    /\ SaveToHistoryOn([Captured EXCEPT
                           !.groups = RemoveGroupFrom(c.st, c.id).groups,
                           !.objects = RemoveGroupFrom(c.st, c.id).objects])
    /\ pending' = Settled(i)
    /\ last' = [op |-> IF ok THEN "removeGroupResolved" ELSE "removeGroupRejected",
                id |-> c.id, promise |-> "fulfilled"]
    /\ UNCHANGED <<lights, selectedObject, selectedLight, modeVars, editVars, projectVars,
                   remoteVars, timers, nextId, undoCalls>>

\* the second await of addObjectToGroup / removeObjectFromGroup: updateGroup
\* with the member list computed from the group the handler read at its start
GroupCall(c, group, objectIds) ==
    [c EXCEPT !.coll = "groups", !.doc = group.firestoreId,
              !.data = [objectIds |-> objectIds], !.status = "sent", !.stage = 2]

\* addObjectToGroup(objectId, groupId): neither the object nor the group has
\* to exist; the object's previous group is not looked at
AddObjectToGroup(objectId, groupId) ==
    LET state == Captured
        o == FindIndex(state.objects, objectId)
        g == FindIndex(state.groups, groupId)
        first == Call("addObjectToGroup", objectId, "objects", "update",
                      IF o = 0 THEN NoId ELSE state.objects[o].firestoreId,
                      [groupId |-> groupId], state)
    IN
    IF (o # 0 /\ state.objects[o].locked) \/ (g # 0 /\ state.groups[g].locked)
    THEN /\ last' = [op |-> "addObjectToGroupNoop", id |-> objectId]
         /\ UNCHANGED <<sceneVars, modeVars, editVars, historyVars, geom, hasUnsavedChanges,
                        projectVars, remoteVars, timers, pending, nextId,
                        commits, undoCalls>>
    ELSE /\ objects' = SetField(state.objects, objectId, "groupId", groupId)
         /\ groups' = [k \in DOMAIN state.groups |->
                          IF state.groups[k].id = groupId
                          THEN [state.groups[k] EXCEPT
                                  !.objectIds = Append(@, objectId)]
                          ELSE state.groups[k]]
         /\ IF o # 0 /\ state.objects[o].firestoreId # NoId /\ HasContext
            THEN /\ CanSuspend
                 /\ pending' = Append(pending, first)
                 /\ UNCHANGED hasUnsavedChanges
            ELSE IF g # 0 /\ state.groups[g].firestoreId # NoId /\ HasContext
            THEN /\ CanSuspend
                 /\ pending' = Append(pending,
                        GroupCall(first, state.groups[g],
                                  Append(state.groups[g].objectIds, objectId)))
                 /\ UNCHANGED hasUnsavedChanges
            ELSE /\ hasUnsavedChanges' = TRUE
                 /\ UNCHANGED pending
         /\ last' = [op |-> "addObjectToGroup", id |-> objectId]
         /\ UNCHANGED <<lights, selectedObject, selectedLight, modeVars, editVars,
                        historyVars, geom, projectVars, remoteVars, timers, nextId,
                        commits, undoCalls>>

\* addObjectToGroup after updateObject or updateGroup settled
AddObjectToGroupSettled(i, ok) ==
    LET c == pending[i]
        g == FindIndex(c.st.groups, c.data.groupId)
    IN
    /\ c.op = "addObjectToGroup"
    /\ c.status = IF ok THEN "ok" ELSE "sent"
    /\ IF c.stage = 1 /\ g # 0 /\ c.st.groups[g].firestoreId # NoId
       THEN /\ pending' = [pending EXCEPT ![i] =
                    GroupCall(c, c.st.groups[g],
                              Append(c.st.groups[g].objectIds, c.id))]
            /\ UNCHANGED hasUnsavedChanges
       ELSE /\ pending' = Settled(i)
            /\ hasUnsavedChanges' = TRUE
    /\ last' = [op |-> IF ok THEN "addObjectToGroupResolved"
                       ELSE "addObjectToGroupRejected",
                id |-> c.id,
                promise |-> IF c.stage = 1 /\ g # 0
                               /\ c.st.groups[g].firestoreId # NoId
                            THEN "pending" ELSE "fulfilled"]
    /\ UNCHANGED <<sceneVars, modeVars, editVars, historyVars, geom, projectVars, remoteVars,
                   timers, nextId, commits, undoCalls>>

\* removeObjectFromGroup(objectId)
RemoveObjectFromGroup(objectId) ==
    LET state == Captured
        o == FindIndex(state.objects, objectId)
        g == IF o = 0 THEN 0 ELSE FindIndex(state.groups, state.objects[o].groupId)
        first == Call("removeObjectFromGroup", objectId, "objects", "update",
                      state.objects[o].firestoreId, [groupId |-> NoId], state)
        members == SelectSeq(state.groups[g].objectIds, LAMBDA id : id # objectId)
    IN
    IF o = 0 \/ state.objects[o].groupId = NoId
       \/ state.objects[o].locked \/ (g # 0 /\ state.groups[g].locked)
    THEN /\ last' = [op |-> "removeObjectFromGroupNoop", id |-> objectId]
         /\ UNCHANGED <<sceneVars, modeVars, editVars, historyVars, geom, hasUnsavedChanges,
                        projectVars, remoteVars, timers, pending, nextId,
                        commits, undoCalls>>
    ELSE /\ objects' = SetField(state.objects, objectId, "groupId", NoId)
         /\ groups' = [k \in DOMAIN state.groups |->
                          IF state.groups[k].id = state.objects[o].groupId
                          THEN [state.groups[k] EXCEPT
                                  !.objectIds = SelectSeq(@, LAMBDA id : id # objectId)]
                          ELSE state.groups[k]]
         /\ IF state.objects[o].firestoreId # NoId /\ HasContext
            THEN /\ CanSuspend
                 /\ pending' = Append(pending, first)
                 /\ UNCHANGED hasUnsavedChanges
            ELSE IF g # 0 /\ state.groups[g].firestoreId # NoId /\ HasContext
            THEN /\ CanSuspend
                 /\ pending' = Append(pending,
                                      GroupCall(first, state.groups[g], members))
                 /\ UNCHANGED hasUnsavedChanges
            ELSE /\ hasUnsavedChanges' = TRUE
                 /\ UNCHANGED pending
         /\ last' = [op |-> "removeObjectFromGroup", id |-> objectId]
         /\ UNCHANGED <<lights, selectedObject, selectedLight, modeVars, editVars,
                        historyVars, geom, projectVars, remoteVars, timers, nextId,
                        commits, undoCalls>>

\* removeObjectFromGroup after updateObject or updateGroup settled
RemoveObjectFromGroupSettled(i, ok) ==
    LET c == pending[i]
        o == FindIndex(c.st.objects, c.id)
        g == FindIndex(c.st.groups, c.st.objects[o].groupId)
    IN
    /\ c.op = "removeObjectFromGroup"
    /\ c.status = IF ok THEN "ok" ELSE "sent"
    /\ IF c.stage = 1 /\ g # 0 /\ c.st.groups[g].firestoreId # NoId
       THEN /\ pending' = [pending EXCEPT ![i] =
                    GroupCall(c, c.st.groups[g],
                              SelectSeq(c.st.groups[g].objectIds,
                                        LAMBDA id : id # c.id))]
            /\ UNCHANGED hasUnsavedChanges
       ELSE /\ pending' = Settled(i)
            /\ hasUnsavedChanges' = TRUE
    /\ last' = [op |-> IF ok THEN "removeObjectFromGroupResolved"
                       ELSE "removeObjectFromGroupRejected",
                id |-> c.id,
                promise |-> IF c.stage = 1 /\ g # 0
                               /\ c.st.groups[g].firestoreId # NoId
                            THEN "pending" ELSE "fulfilled"]
    /\ UNCHANGED <<sceneVars, modeVars, editVars, historyVars, geom, projectVars, remoteVars,
                   timers, nextId, commits, undoCalls>>

\* The tail shared by the handlers that change local state first and then
\* await one updateGroup / updateLight: with a persisted entity and a project
\* context the handler suspends, else it marks the scene unsaved.
WriteBack(op, id, coll, entity, data) ==
    IF entity.firestoreId # NoId /\ HasContext
    THEN /\ CanSuspend
         /\ pending' = Append(pending,
                Call(op, id, coll, "update", entity.firestoreId, data, NoCapture))
         /\ UNCHANGED hasUnsavedChanges
    ELSE /\ hasUnsavedChanges' = TRUE
         /\ UNCHANGED pending

\* the continuation of those handlers: the error is logged if any, and
\* markUnsavedChanges runs
WriteBackSettled(i, ok) ==
    LET c == pending[i] IN
    /\ c.op \in {"toggleGroupVisibility", "toggleGroupLock", "updateGroupName",
                 "updateLight", "toggleLightVisibility", "moveObjectsToGroup"}
    /\ c.status = IF ok THEN "ok" ELSE "sent"
    /\ pending' = Settled(i)
    /\ hasUnsavedChanges' =
          IF c.op = "moveObjectsToGroup"
             /\ \E k \in DOMAIN pending : k # i /\ pending[k].op = c.op
          THEN hasUnsavedChanges ELSE TRUE
    /\ last' = [op |-> IF ok THEN "writeBackResolved" ELSE "writeBackRejected",
                id |-> c.id,
                promise |-> IF c.op = "moveObjectsToGroup"
                               /\ \E k \in DOMAIN pending :
                                     k # i /\ pending[k].op = c.op
                            THEN "pending" ELSE "fulfilled"]
    /\ UNCHANGED <<sceneVars, modeVars, editVars, historyVars, geom, projectVars, remoteVars,
                   timers, nextId, commits, undoCalls>>

\* toggleGroupVisibility(groupId)
ToggleGroupVisibility(groupId) ==
    LET state == Captured
        g == FindIndex(state.groups, groupId)
        group == state.groups[g]
        s == FindByMesh(state.objects, state.selectedObject)
    IN
    IF g = 0 \/ group.locked
    THEN /\ last' = [op |-> "toggleGroupVisibilityNoop", id |-> groupId]
         /\ UNCHANGED <<sceneVars, modeVars, editVars, historyVars, geom, hasUnsavedChanges,
                        projectVars, remoteVars, timers, pending, nextId,
                        commits, undoCalls>>
    ELSE /\ groups' = SetField(state.groups, groupId, "visible", ~group.visible)
         /\ objects' = [k \in DOMAIN state.objects |->
                           IF Includes(group.objectIds, state.objects[k].id)
                           THEN [state.objects[k] EXCEPT !.visible = ~group.visible]
                           ELSE state.objects[k]]
         /\ selectedObject' =
               IF s # 0 /\ Includes(group.objectIds, state.objects[s].id)
                  /\ group.visible
               THEN NoMesh ELSE state.selectedObject
         /\ WriteBack("toggleGroupVisibility", groupId, "groups", group,
                      [visible |-> ~group.visible])
         /\ last' = [op |-> "toggleGroupVisibility", id |-> groupId]
         /\ UNCHANGED <<lights, selectedLight, modeVars, editVars, historyVars, geom,
                        projectVars, remoteVars, timers, nextId, commits,
                        undoCalls>>

\* toggleGroupLock(groupId)
ToggleGroupLock(groupId) ==
    LET state == Captured
        g == FindIndex(state.groups, groupId)
        group == state.groups[g]
        s == FindByMesh(state.objects, state.selectedObject)
    IN
    IF g = 0
    THEN /\ last' = [op |-> "toggleGroupLockNoop", id |-> groupId]
         /\ UNCHANGED <<sceneVars, modeVars, editVars, historyVars, geom, hasUnsavedChanges,
                        projectVars, remoteVars, timers, pending, nextId,
                        commits, undoCalls>>
    ELSE /\ groups' = SetField(state.groups, groupId, "locked", ~group.locked)
         /\ selectedObject' =
               IF s # 0 /\ Includes(group.objectIds, state.objects[s].id)
                  /\ ~group.locked
               THEN NoMesh ELSE state.selectedObject
         /\ WriteBack("toggleGroupLock", groupId, "groups", group,
                      [locked |-> ~group.locked])
         /\ last' = [op |-> "toggleGroupLock", id |-> groupId]
         /\ UNCHANGED <<objects, lights, selectedLight, modeVars, editVars, historyVars, geom,
                        projectVars, remoteVars, timers, nextId, commits,
                        undoCalls>>

\* updateGroupName(groupId, name): a group that does not exist is "not
\* locked" and the handler marks the scene unsaved
UpdateGroupName(groupId, name) ==
    LET state == Captured
        g == FindIndex(state.groups, groupId)
    IN
    IF g # 0 /\ state.groups[g].locked
    THEN /\ last' = [op |-> "updateGroupNameNoop", id |-> groupId]
         /\ UNCHANGED <<sceneVars, modeVars, editVars, historyVars, geom, hasUnsavedChanges,
                        projectVars, remoteVars, timers, pending, nextId,
                        commits, undoCalls>>
    ELSE /\ groups' = SetField(state.groups, groupId, "name", name)
         /\ WriteBack("updateGroupName", groupId, "groups",
                      IF g = 0 THEN [firestoreId |-> NoId] ELSE state.groups[g],
                      [name |-> name])
         /\ last' = [op |-> "updateGroupName", id |-> groupId]
         /\ UNCHANGED <<objects, lights, selectedObject, selectedLight, modeVars, editVars,
                        historyVars, geom, projectVars, remoteVars, timers, nextId,
                        commits, undoCalls>>

\* toggleGroupExpanded(groupId)
ToggleGroupExpanded(groupId) ==
    /\ groups' = [k \in DOMAIN groups |->
                     IF groups[k].id = groupId
                     THEN [groups[k] EXCEPT !.expanded = ~@] ELSE groups[k]]
    /\ last' = [op |-> "toggleGroupExpanded", id |-> groupId]
    /\ UNCHANGED <<objects, lights, selectedObject, selectedLight, modeVars, editVars,
                   historyVars, geom, hasUnsavedChanges, projectVars, remoteVars,
                   timers, pending, nextId, commits, undoCalls>>

\* an id of objectIds names an object that is locked or in a locked group
AnyLocked(st, objectIds) ==
    \E k \in DOMAIN objectIds :
        /\ FindIndex(st.objects, objectIds[k]) # 0
        /\ LockedIn(st.objects, st.groups, FindIndex(st.objects, objectIds[k]))

\* the updateObject calls moveObjectsToGroup issues, one per persisted object
MoveCalls(state, objectIds, groupId) ==
    LET persisted == SelectSeq(objectIds, LAMBDA id :
                        /\ FindIndex(state.objects, id) # 0
                        /\ state.objects[FindIndex(state.objects, id)].firestoreId # NoId)
    IN  [k \in DOMAIN persisted |->
            Call("moveObjectsToGroup", persisted[k], "objects", "update",
                 state.objects[FindIndex(state.objects, persisted[k])].firestoreId,
                 [groupId |-> groupId], NoCapture)]

\* moveObjectsToGroup(objectIds, groupId): groupId NoId moves the objects out
\* of every group.  The updateObject calls are issued together and the
\* handler awaits them all (one such await at a time is explored).
MoveObjectsToGroup(objectIds, groupId) ==
    LET state == Captured
        t == FindIndex(state.groups, groupId)
        updatedGroups ==
            [k \in DOMAIN state.groups |->
                [state.groups[k] EXCEPT
                   !.objectIds = SelectSeq(@, LAMBDA id : ~Includes(objectIds, id))]]
        updatePromises == IF HasContext THEN MoveCalls(state, objectIds, groupId) ELSE <<>>
    IN
    IF AnyLocked(state, objectIds)
       \/ (groupId # NoId /\ t # 0 /\ state.groups[t].locked)
    THEN /\ last' = [op |-> "moveObjectsToGroupNoop", id |-> groupId]
         /\ UNCHANGED <<sceneVars, modeVars, editVars, historyVars, geom, hasUnsavedChanges,
                        projectVars, remoteVars, timers, pending, nextId,
                        commits, undoCalls>>
    ELSE /\ groups' = IF groupId # NoId
                      THEN [k \in DOMAIN updatedGroups |->
                              IF updatedGroups[k].id = groupId
                              THEN [updatedGroups[k] EXCEPT
                                      !.objectIds = @ \o objectIds]
                              ELSE updatedGroups[k]]
                      ELSE updatedGroups
         /\ objects' = [k \in DOMAIN state.objects |->
                           IF Includes(objectIds, state.objects[k].id)
                           THEN [state.objects[k] EXCEPT !.groupId = groupId]
                           ELSE state.objects[k]]
         /\ IF updatePromises # <<>>
            THEN /\ Len(pending) + Len(updatePromises) <= MaxPending
                 /\ \A k \in DOMAIN pending : pending[k].op # "moveObjectsToGroup"
                 /\ pending' = pending \o updatePromises
                 /\ UNCHANGED hasUnsavedChanges
            ELSE /\ hasUnsavedChanges' = TRUE
                 /\ UNCHANGED pending
         /\ last' = [op |-> "moveObjectsToGroup", id |-> groupId]
         /\ UNCHANGED <<lights, selectedObject, selectedLight, modeVars, editVars,
                        historyVars, geom, projectVars, remoteVars, timers, nextId,
                        commits, undoCalls>>

\* duplicateObject(): the copy of the selected object joins the object list
\* and the selected object's group, and becomes the selection
DuplicateObject ==
    LET state == Captured
        s == FindByMesh(state.objects, state.selectedObject)
        selectedObj == state.objects[s]
        clonedObject == <<nextId, 0>>
        newObject == SceneObject(nextId, clonedObject, selectedObj.name \o " Copy",
                                 TRUE, FALSE, selectedObj.groupId, NoId,
                                 selectedObj.type, selectedObj.geometry)
        st == [state EXCEPT
                 !.objects = Append(objects, newObject),
                 !.groups = IF selectedObj.groupId # NoId
                            THEN [k \in DOMAIN groups |->
                                    IF groups[k].id = selectedObj.groupId
                                    THEN [groups[k] EXCEPT
                                            !.objectIds = Append(@, newObject.id)]
                                    ELSE groups[k]]
                            ELSE groups,
                 !.selectedObject = clonedObject]
        heap == IF state.selectedObject \in DOMAIN geom
                THEN (clonedObject :> geom[state.selectedObject]) @@ geom
                ELSE geom
    IN
    IF state.selectedObject = NoMesh \/ s = 0 \/ isObjectLocked(selectedObj.id)
    THEN /\ last' = [op |-> "duplicateObjectNoop", id |-> NoId]
         /\ UNCHANGED <<sceneVars, modeVars, editVars, historyVars, geom, hasUnsavedChanges,
                        projectVars, remoteVars, timers, pending, nextId,
                        commits, undoCalls>>
    ELSE /\ nextId <= MaxIds
         /\ IF HasContext THEN CanSuspend ELSE commits < MaxSceneCommits
         /\ nextId' = nextId + 1
         /\ objects' = st.objects
         /\ groups' = st.groups
         /\ selectedObject' = st.selectedObject
         /\ IF HasContext
            THEN /\ pending' = Append(pending,
                        Call("duplicateObject", newObject.id, "objects", "create",
                             NoId,
                             objectToFirestore(newObject, currentUserId,
                                               currentProjectId),
                             NoCapture))
                 /\ geom' = heap
                 /\ UNCHANGED <<historyVars, hasUnsavedChanges, commits>>
            ELSE /\ SaveToHistoryWith(st, heap)
                 /\ UNCHANGED pending
         /\ last' = [op |-> "duplicateObject", id |-> newObject.id]
         /\ UNCHANGED <<lights, selectedLight, modeVars, editVars, projectVars,
                        remoteVars, timers, undoCalls>>

\* duplicateObject after saveObject settled
DuplicateObjectSettled(i, ok) ==
    LET c == pending[i]
        st == [Captured EXCEPT
                 !.objects = IF ok THEN WithFirestoreId(objects, c.id, c.doc)
                             ELSE objects]
    IN
    /\ c.op = "duplicateObject"
    /\ c.status = IF ok THEN "ok" ELSE "sent"
    /\ commits < MaxSceneCommits
    /\ objects' = st.objects
    /\ SaveToHistoryOn(st)
    /\ pending' = Settled(i)
    /\ last' = [op |-> IF ok THEN "duplicateObjectResolved"
                       ELSE "duplicateObjectRejected",
                id |-> c.id, promise |-> "fulfilled"]
    /\ UNCHANGED <<groups, lights, selectedObject, selectedLight, modeVars, editVars,
                   projectVars, remoteVars, timers, nextId, undoCalls>>

----------------------------------------------------------------------------
(* Lights *)

\* the FirestoreLight addLight hands to saveLight, with saveLight's scoping
FirestoreLight(light, userId, projectId) ==
    [name |-> light.name, type |-> light.type, intensity |-> light.intensity,
     visible |-> light.visible, userId |-> userId, projectId |-> projectId]

\* addLight(type): the light is appended and selected at once; with a
\* project context the handler then awaits saveLight, else it commits
AddLight(type) ==
    LET lightCount == Len(SelectSeq(lights, LAMBDA l : l.type = type))
        newLight == [id |-> nextId, name |-> <<type, lightCount + 1>>,
                     type |-> type, intensity |-> 1, visible |-> TRUE,
                     object |-> createLight(type), firestoreId |-> NoId]
        st == [Captured EXCEPT !.lights = Append(lights, newLight),
                               !.selectedLight = newLight.id]
    IN
    /\ nextId <= MaxIds
    /\ IF HasContext THEN CanSuspend ELSE commits < MaxSceneCommits
    /\ nextId' = nextId + 1
    /\ lights' = st.lights
    /\ selectedLight' = st.selectedLight
    /\ IF HasContext
       THEN /\ pending' = Append(pending,
                   Call("addLight", newLight.id, "lights", "create", NoId,
                        FirestoreLight(newLight, currentUserId, currentProjectId),
                        NoCapture))
            /\ UNCHANGED <<historyVars, geom, hasUnsavedChanges, commits>>
       ELSE /\ SaveToHistoryOn(st)
            /\ UNCHANGED pending
    /\ last' = [op |-> "addLight", id |-> newLight.id]
    /\ UNCHANGED <<objects, groups, selectedObject, modeVars, editVars, projectVars,
                   remoteVars, timers, undoCalls>>

\* addLight after saveLight settled
AddLightSettled(i, ok) ==
    LET c == pending[i]
        st == [Captured EXCEPT
                 !.lights = IF ok THEN SetField(lights, c.id, "firestoreId", c.doc)
                            ELSE lights]
    IN
    /\ c.op = "addLight"
    /\ c.status = IF ok THEN "ok" ELSE "sent"
    /\ commits < MaxSceneCommits
    /\ lights' = st.lights
    /\ SaveToHistoryOn(st)
    /\ pending' = Settled(i)
    /\ last' = [op |-> IF ok THEN "addLightResolved" ELSE "addLightRejected",
                id |-> c.id, promise |-> "fulfilled"]
    /\ UNCHANGED <<objects, groups, selectedObject, selectedLight, modeVars, editVars,
                   projectVars, remoteVars, timers, nextId, undoCalls>>

\* what removeLight writes: the lights of `state` without the light, and the
\* selection of `state` unless it was that light
RemoveLightFrom(st, lightId) ==
    [st EXCEPT
       !.lights = SelectSeq(st.lights, LAMBDA l : l.id # lightId),
       !.selectedLight = IF st.selectedLight = lightId THEN NoId
                         ELSE st.selectedLight]

\* removeLight(lightId)
RemoveLight(lightId) ==
    LET state == Captured
        l == FindIndex(state.lights, lightId)
    IN
    IF l = 0
    THEN /\ last' = [op |-> "removeLightNoop", id |-> lightId]
         /\ UNCHANGED <<sceneVars, modeVars, editVars, historyVars, geom, hasUnsavedChanges,
                        projectVars, remoteVars, timers, pending, nextId,
                        commits, undoCalls>>
    ELSE IF state.lights[l].firestoreId # NoId /\ currentProjectId # NoId
    THEN /\ CanSuspend
         /\ pending' = Append(pending,
                Call("removeLight", lightId, "lights", "delete",
                     state.lights[l].firestoreId, <<>>, state))
         /\ last' = [op |-> "removeLight", id |-> lightId]
         /\ UNCHANGED <<sceneVars, modeVars, editVars, historyVars, geom, hasUnsavedChanges,
                        projectVars, remoteVars, timers, nextId, commits,
                        undoCalls>>
    ELSE /\ commits < MaxSceneCommits
         /\ lights' = RemoveLightFrom(state, lightId).lights
         /\ selectedLight' = RemoveLightFrom(state, lightId).selectedLight
         /\ SaveToHistoryOn(RemoveLightFrom(state, lightId))
         /\ last' = [op |-> "removeLight", id |-> lightId]
         /\ UNCHANGED <<objects, groups, selectedObject, modeVars, editVars, projectVars,
                        remoteVars, timers, pending, nextId, undoCalls>>

\* removeLight after deleteLight settled, resolved or rejected alike
RemoveLightSettled(i, ok) ==
    LET c == pending[i]
        st == [Captured EXCEPT
                 !.lights = RemoveLightFrom(c.st, c.id).lights,
                 !.selectedLight = RemoveLightFrom(c.st, c.id).selectedLight]
    IN
    /\ c.op = "removeLight"
    /\ c.status = IF ok THEN "ok" ELSE "sent"
    /\ commits < MaxSceneCommits
    /\ lights' = st.lights
    /\ selectedLight' = st.selectedLight
    /\ SaveToHistoryOn(st)
    /\ pending' = Settled(i)
    /\ last' = [op |-> IF ok THEN "removeLightResolved" ELSE "removeLightRejected",
                id |-> c.id, promise |-> "fulfilled"]
    /\ UNCHANGED <<objects, groups, selectedObject, modeVars, editVars, projectVars,
                   remoteVars, timers, nextId, undoCalls>>

\* updateLight(lightId, properties), for the property `intensity`: the
\* light's record and its live handle take the new value
UpdateLight(lightId, intensity) ==
    LET l == FindIndex(lights, lightId) IN
    /\ lights' = [k \in DOMAIN lights |->
                     IF lights[k].id = lightId
                     THEN [lights[k] EXCEPT !.intensity = intensity,
                                            !.object.intensity = intensity,
                                            !.object.visible = lights[k].visible]
                     ELSE lights[k]]
    /\ WriteBack("updateLight", lightId, "lights",
                 IF l = 0 THEN [firestoreId |-> NoId] ELSE lights[l],
                 [intensity |-> intensity])
    /\ last' = [op |-> "updateLight", id |-> lightId]
    /\ UNCHANGED <<objects, groups, selectedObject, selectedLight, modeVars, editVars,
                   historyVars, geom, projectVars, remoteVars, timers, nextId,
                   commits, undoCalls>>

\* toggleLightVisibility(lightId)
ToggleLightVisibility(lightId) ==
    LET l == FindIndex(lights, lightId) IN
    IF l = 0
    THEN /\ last' = [op |-> "toggleLightVisibilityNoop", id |-> lightId]
         /\ UNCHANGED <<sceneVars, modeVars, editVars, historyVars, geom, hasUnsavedChanges,
                        projectVars, remoteVars, timers, pending, nextId,
                        commits, undoCalls>>
    ELSE /\ lights' = [SetField(lights, lightId, "visible", ~lights[l].visible)
                         EXCEPT ![l].object.visible = ~lights[l].visible]
         /\ WriteBack("toggleLightVisibility", lightId, "lights", lights[l],
                      [visible |-> ~lights[l].visible])
         /\ last' = [op |-> "toggleLightVisibility", id |-> lightId]
         /\ UNCHANGED <<objects, groups, selectedObject, selectedLight, modeVars, editVars,
                        historyVars, geom, projectVars, remoteVars, timers, nextId,
                        commits, undoCalls>>

\* setSelectedLight(light)
SetSelectedLight(lightId) ==
    /\ selectedLight' = lightId
    /\ last' = [op |-> "setSelectedLight", id |-> lightId]
    /\ UNCHANGED <<objects, groups, lights, selectedObject, modeVars, editVars,
                   historyVars, geom, hasUnsavedChanges, projectVars, remoteVars,
                   timers, pending, nextId, commits, undoCalls>>

----------------------------------------------------------------------------
(* Mesh editing *)

\* `state.selectedObject instanceof THREE.Mesh`
IsMesh(mesh) == mesh \in DOMAIN geom

\* the lock check of the mesh-editing handlers:
\* `isObjectLocked(selectedObj?.id || '')`, false when the selection is not
\* a mesh of the scene
SelectedLocked ==
    LET i == FindByMesh(objects, selectedObject)
    IN  i # 0 /\ isObjectLocked(objects[i].id)

Add(a, b) == <<a[1] + b[1], a[2] + b[2], a[3] + b[3]>>
Sub(a, b) == <<a[1] - b[1], a[2] - b[2], a[3] - b[3]>>

RECURSIVE Ascending(_)
\* the indices of S in the order a loop from 0 pushes them
Ascending(S) ==
    IF S = {} THEN <<>> ELSE <<Min(S)>> \o Ascending(S \ {Min(S)})

\* a variant of the loop of startVertexDrag that welds only the vertices at
\* exactly the position of the picked one
OverlappingIndicesExact(positions, index) ==
    IF index \notin DOMAIN positions THEN <<>>
    ELSE Ascending({i \in DOMAIN positions : positions[i] = positions[index]})

\* a variant of findOverlappingVertices that returns the target alone
findOverlappingVerticesAlone(positions, targetIndex) == <<targetIndex>>

\* the loop of startVertexDrag: every index whose position is within the
\* tolerance of the position at `index`; an index outside the buffer reads
\* NaN and is within the tolerance of nothing
OverlappingIndices(positions, index) ==
    IF index \notin DOMAIN positions THEN <<>>
    ELSE Ascending({i \in DOMAIN positions :
                       Overlapping(positions[i], positions[index])})

\* findOverlappingVertices(targetIndex) of startEdgeDrag: the target first,
\* then every other index within the tolerance of it
findOverlappingVertices(positions, targetIndex) ==
    IF targetIndex \notin DOMAIN positions THEN <<targetIndex>>
    ELSE <<targetIndex>> \o
         Ascending({i \in DOMAIN positions \ {targetIndex} :
                       Overlapping(positions[i], positions[targetIndex])})

RECURSIVE AddAll(_, _)
\* `seq.forEach(v => set.add(v))`: a Set keeps its insertion order
AddAll(set, seq) ==
    IF seq = <<>> THEN set
    ELSE AddAll(IF Includes(set, Head(seq)) THEN set ELSE Append(set, Head(seq)),
                Tail(seq))

\* the nested forEach of startEdgeDrag: every pair across the two lists
EdgePairs(v1, v2) ==
    [k \in 1..(Len(v1) * Len(v2)) |->
        <<v1[((k - 1) \div Len(v2)) + 1], v2[((k - 1) % Len(v2)) + 1]>>]

\* the history variable after an update of a drag of `kind`: the drag is
\* unbroken while the steps since its start are its own updates, on the mesh
\* it started on
Advanced(kind) ==
    IF gesture = NoDrag THEN NoDrag
    ELSE [gesture EXCEPT
            !.updates = @ + 1,
            !.unbroken = /\ @
                         /\ gesture.kind = kind
                         /\ selectedObject = gesture.mesh
                         /\ last.op \in IF kind = "vertex"
                                        THEN {"startVertexDrag", "updateVertexDrag"}
                                        ELSE {"startEdgeDrag", "updateEdgeDrag"}]

\* startVertexDrag(index, position)
StartVertexDrag(index, position) ==
    IF ~IsMesh(selectedObject) \/ SelectedLocked
    THEN /\ last' = [op |-> "startVertexDragNoop", id |-> index]
         /\ UNCHANGED <<sceneVars, modeVars, editVars, historyVars, geom,
                        hasUnsavedChanges, projectVars, remoteVars, timers,
                        pending, nextId, commits, undoCalls>>
    ELSE LET overlappingIndices == OverlappingIndices(geom[selectedObject], index)
         IN
         /\ draggedVertex' = [indices |-> overlappingIndices,
                              position |-> position,
                              initialPosition |-> position]
         /\ selectedElements' =
               [selectedElements EXCEPT !.vertices = overlappingIndices]
         /\ gesture' = [kind |-> "vertex", mesh |-> selectedObject,
                        start |-> geom[selectedObject], picked |-> <<index>>,
                        midpoint |-> position, updates |-> 0,
                        unbroken |-> TRUE]
         /\ last' = [op |-> "startVertexDrag", id |-> index]
         /\ UNCHANGED <<sceneVars, modeVars, draggedEdge, codec, placeVars, bulkVars, shapeVars,
                        historyVars, geom, hasUnsavedChanges, projectVars,
                        remoteVars, timers, pending, nextId, commits, undoCalls>>

\* updateVertexDrag(position): setXYZ on every index of the weld group, in
\* the buffer of the mesh selected now (normals are derived data and are
\* not kept here)
UpdateVertexDrag(position) ==
    IF draggedVertex = NoDrag \/ ~IsMesh(selectedObject) \/ SelectedLocked
    THEN /\ last' = [op |-> "updateVertexDragNoop", id |-> NoId]
         /\ UNCHANGED <<sceneVars, modeVars, editVars, historyVars, geom,
                        hasUnsavedChanges, projectVars, remoteVars, timers,
                        pending, nextId, commits, undoCalls>>
    ELSE /\ geom' = [geom EXCEPT ![selectedObject] =
                       [i \in DOMAIN @ |->
                           IF Includes(draggedVertex.indices, i)
                           THEN position ELSE @[i]]]
         /\ draggedVertex' = [draggedVertex EXCEPT !.position = position]
         /\ gesture' = Advanced("vertex")
         /\ last' = [op |-> "updateVertexDrag", id |-> NoId]
         /\ UNCHANGED <<sceneVars, modeVars, draggedEdge, selectedElements,
                        codec, placeVars, bulkVars, shapeVars, historyVars, hasUnsavedChanges,
                        projectVars, remoteVars, timers, pending, nextId,
                        commits, undoCalls>>

\* updateObjectProperties() as endVertexDrag and endEdgeDrag call it: up to
\* its await when the selected object is written back, to its end otherwise
\* (hasUnsavedChanges is set by the saveToHistory before it)
WriteBackSelected ==
    LET i == FindByMesh(objects, selectedObject) IN
    IF /\ selectedObject # NoMesh
       /\ i # 0
       /\ ~isObjectLocked(objects[i].id)
       /\ objects[i].firestoreId # NoId
       /\ HasContext
    THEN /\ CanSuspend
         /\ pending' = Append(pending,
                Call("updateObjectProperties", objects[i].id, "objects", "update",
                     objects[i].firestoreId,
                     PropertiesPatch(objects[i], currentUserId, currentProjectId),
                     NoCapture))
    ELSE UNCHANGED pending

\* endVertexDrag(): saveToHistory(), updateObjectProperties(),
\* set({ draggedVertex: null })
EndVertexDrag ==
    /\ commits < MaxSceneCommits
    /\ SaveToHistoryOn(Captured)
    /\ WriteBackSelected
    /\ draggedVertex' = NoDrag
    /\ gesture' = NoDrag
    /\ last' = [op |-> "endVertexDrag", id |-> NoId]
    /\ UNCHANGED <<sceneVars, modeVars, draggedEdge, selectedElements,
                   codec, placeVars, bulkVars, shapeVars, projectVars, remoteVars, timers, nextId, undoCalls>>

\* startEdgeDrag(vertexIndices, positions, midpoint)
StartEdgeDrag(vertexIndices, positions, midpoint) ==
    IF ~IsMesh(selectedObject) \/ SelectedLocked
    THEN /\ last' = [op |-> "startEdgeDragNoop", id |-> NoId]
         /\ UNCHANGED <<sceneVars, modeVars, editVars, historyVars, geom,
                        hasUnsavedChanges, projectVars, remoteVars, timers,
                        pending, nextId, commits, undoCalls>>
    ELSE LET positionAttribute == geom[selectedObject]
             vertex1Overlapping ==
                 findOverlappingVertices(positionAttribute, vertexIndices[1])
             vertex2Overlapping ==
                 findOverlappingVertices(positionAttribute, vertexIndices[2])
             connectedVertices ==
                 AddAll(AddAll(<<>>, vertex1Overlapping), vertex2Overlapping)
         IN
         /\ draggedEdge' = [indices |-> EdgePairs(vertex1Overlapping,
                                                  vertex2Overlapping),
                            positions |-> positions,
                            initialPositions |-> positions,
                            connectedVertices |-> connectedVertices,
                            midpoint |-> midpoint]
         /\ selectedElements' =
               [selectedElements EXCEPT !.edges = connectedVertices]
         /\ gesture' = [kind |-> "edge", mesh |-> selectedObject,
                        start |-> positionAttribute, picked |-> vertexIndices,
                        midpoint |-> midpoint, updates |-> 0,
                        unbroken |-> TRUE]
         /\ last' = [op |-> "startEdgeDrag", id |-> NoId]
         /\ UNCHANGED <<sceneVars, modeVars, draggedVertex, codec, placeVars, bulkVars, shapeVars, historyVars,
                        geom, hasUnsavedChanges, projectVars, remoteVars,
                        timers, pending, nextId, commits, undoCalls>>

\* updateEdgeDrag(position): every connected vertex moves by
\* position - midpoint, and position becomes the midpoint
UpdateEdgeDrag(position) ==
    IF draggedEdge = NoDrag \/ ~IsMesh(selectedObject) \/ SelectedLocked
    THEN /\ last' = [op |-> "updateEdgeDragNoop", id |-> NoId]
         /\ UNCHANGED <<sceneVars, modeVars, editVars, historyVars, geom,
                        hasUnsavedChanges, projectVars, remoteVars, timers,
                        pending, nextId, commits, undoCalls>>
    ELSE LET offset == Sub(position, draggedEdge.midpoint) IN
         /\ geom' = [geom EXCEPT ![selectedObject] =
                       [i \in DOMAIN @ |->
                           IF Includes(draggedEdge.connectedVertices, i)
                           THEN Add(@[i], offset) ELSE @[i]]]
         /\ draggedEdge' = [draggedEdge EXCEPT !.midpoint = position]
         /\ gesture' = Advanced("edge")
         /\ last' = [op |-> "updateEdgeDrag", id |-> NoId]
         /\ UNCHANGED <<sceneVars, modeVars, draggedVertex, selectedElements,
                        codec, placeVars, bulkVars, shapeVars, historyVars, hasUnsavedChanges, projectVars,
                        remoteVars, timers, pending, nextId, commits, undoCalls>>

\* endEdgeDrag(): saveToHistory(), updateObjectProperties(),
\* set({ draggedEdge: null })
EndEdgeDrag ==
    /\ commits < MaxSceneCommits
    /\ SaveToHistoryOn(Captured)
    /\ WriteBackSelected
    /\ draggedEdge' = NoDrag
    /\ gesture' = NoDrag
    /\ last' = [op |-> "endEdgeDrag", id |-> NoId]
    /\ UNCHANGED <<sceneVars, modeVars, draggedVertex, selectedElements, codec, placeVars, bulkVars, shapeVars,
                   projectVars, remoteVars, timers, nextId, undoCalls>>

----------------------------------------------------------------------------
(* Placement *)

\* startObjectPlacement(objectDef); objectDef is [name, type, geometry],
\* the name and what its geometry factory makes
StartObjectPlacement(objectDef) ==
    /\ placementMode' = TRUE
    /\ pendingObject' = objectDef
    /\ selectedObject' = NoMesh
    /\ transformMode' = "null"
    /\ editMode' = "null"
    /\ last' = [op |-> "startObjectPlacement", id |-> NoId]
    /\ UNCHANGED <<objects, groups, lights, selectedLight, persistentEditMode,
                   draggedVertex, draggedEdge, selectedElements, gesture,
                   codec, bulkVars, shapeVars, historyVars, geom, hasUnsavedChanges, projectVars,
                   remoteVars, timers, pending, nextId, commits, undoCalls>>

\* a variant of what placeObjectAt sets at its end that keeps the pending
\* object
PlacedKeepingPending(mesh) ==
    /\ placementMode' = FALSE
    /\ pendingObject' = pendingObject
    /\ selectedObject' = mesh

\* what placeObjectAt sets after its `await get().addObject(...)`
Placed(mesh) ==
    /\ placementMode' = FALSE
    /\ pendingObject' = NoDrag
    /\ selectedObject' = mesh

\* placeObjectAt(position): nothing without a pending object; else the
\* object is made and handed to addObject, which appends it and, with a
\* project context, awaits saveObject; without one the handler runs to its
\* end
PlaceObjectAt ==
    IF pendingObject = NoDrag
    THEN /\ last' = [op |-> "placeObjectAtNoop", id |-> NoId]
         /\ UNCHANGED <<sceneVars, modeVars, editVars, historyVars, geom,
                        hasUnsavedChanges, projectVars, remoteVars, timers,
                        pending, nextId, commits, undoCalls>>
    ELSE LET newObject == SceneObject(nextId, <<nextId, 0>>, pendingObject.name,
                                      TRUE, FALSE, NoId, NoId,
                                      pendingObject.type, pendingObject.geometry)
         IN
         /\ nextId <= MaxIds
         /\ HasContext => CanSuspend
         /\ objects' = Append(objects, newObject)
         /\ nextId' = nextId + 1
         /\ geom' = IF newObject.type = "Mesh"
                    THEN WithBuffers(geom, {newObject.mesh},
                                     [h \in {newObject.mesh} |-> newObject.geometry])
                    ELSE geom
         /\ IF HasContext
            THEN /\ pending' = Append(pending,
                        Call("placeObjectAt", newObject.id, "objects", "create",
                             NoId,
                             objectToFirestore(newObject, currentUserId,
                                               currentProjectId),
                             NoCapture))
                 /\ UNCHANGED <<timers, selectedObject, placeVars>>
            ELSE /\ timers' = timers + 1
                 /\ Placed(newObject.mesh)
                 /\ UNCHANGED pending
         /\ last' = [op |-> "placeObjectAt", id |-> newObject.id]
         /\ UNCHANGED <<groups, lights, selectedLight, modeVars, draggedVertex,
                        draggedEdge, selectedElements, gesture, codec, bulkVars, shapeVars,
                        historyVars, hasUnsavedChanges, projectVars, remoteVars,
                        commits, undoCalls>>

\* placeObjectAt after the saveObject of its addObject settled: addObject
\* attaches the id (resolved) or logs the error (rejected) and queues the
\* commit, then placeObjectAt leaves the placement and selects the object
PlaceObjectAtSettled(i, ok) ==
    LET c == pending[i] IN
    /\ c.op = "placeObjectAt"
    /\ c.status = IF ok THEN "ok" ELSE "sent"
    /\ objects' = IF ok THEN WithFirestoreId(objects, c.id, c.doc) ELSE objects
    /\ timers' = timers + 1
    /\ Placed(<<c.id, 0>>)
    /\ pending' = Settled(i)
    /\ last' = [op |-> IF ok THEN "placeObjectAtResolved"
                       ELSE "placeObjectAtRejected",
                id |-> c.id, promise |-> "fulfilled"]
    /\ UNCHANGED <<groups, lights, selectedLight, modeVars, draggedVertex,
                   draggedEdge, selectedElements, gesture, codec, bulkVars, shapeVars, historyVars,
                   geom, hasUnsavedChanges, projectVars, remoteVars, nextId,
                   commits, undoCalls>>

\* cancelObjectPlacement()
CancelObjectPlacement ==
    /\ placementMode' = FALSE
    /\ pendingObject' = NoDrag
    /\ last' = [op |-> "cancelObjectPlacement", id |-> NoId]
    /\ UNCHANGED <<sceneVars, modeVars, draggedVertex, draggedEdge,
                   selectedElements, gesture, codec, bulkVars, shapeVars, historyVars, geom,
                   hasUnsavedChanges, projectVars, remoteVars, timers, pending,
                   nextId, commits, undoCalls>>

----------------------------------------------------------------------------
(* Bulk operations *)

\* one per-record gateway call of a bulk operation (saveObject, updateObject,
\* deleteDoc, ...), as the promise the bulk operation collects
Attempt(id, coll, kind, doc, data, userId, projectId) ==
    [id |-> id, coll |-> coll, kind |-> kind, doc |-> doc, data |-> data,
     user |-> userId, project |-> projectId, status |-> "sent"]

\* `await Promise.all([...])` over the collected promises, reached once the
\* reads before it are through: Promise.all rejects as soon as one of its
\* promises has rejected and fulfils when all of them have fulfilled
PromiseAll(reads, attempts) ==
    IF reads # <<>> THEN "pending"
    ELSE IF \E k \in DOMAIN attempts : attempts[k].status = "failed"
    THEN "rejected"
    ELSE IF \A k \in DOMAIN attempts : attempts[k].status = "done"
    THEN "fulfilled"
    ELSE "pending"

\* a bulk operation under way: the reads it still awaits one after the
\* other, the per-record calls it has started, and its own promise; every
\* catch block of these functions logs and rethrows
Bulk(op, reads, attempts, userId, projectId) ==
    [op |-> op, reads |-> reads, attempts |-> attempts,
     promise |-> PromiseAll(reads, attempts), user |-> userId,
     project |-> projectId]

\* one bulk operation is followed at a time, from its call until the last
\* of its per-record calls has settled
BulkIdle ==
    IF batch = NoDrag THEN TRUE
    ELSE /\ batch.promise # "pending"
         /\ \A k \in DOMAIN batch.attempts :
               batch.attempts[k].status \in {"done", "failed"}

\* the store's variables a gateway function does not touch
BulkUntouched ==
    UNCHANGED <<sceneVars, modeVars, dragVars, shapeVars, historyVars, geom,
                projectVars, remoteVars, timers, pending, nextId, commits,
                undoCalls>>

\* objects.map / groups.map / lights.map of saveProjectData: updateX for an
\* entity with a firestoreId, saveX for one without
SaveAttempts(seq, coll, Data(_)) ==
    [k \in DOMAIN seq |->
        Attempt(seq[k].id, coll,
                IF seq[k].firestoreId # NoId THEN "update" ELSE "create",
                seq[k].firestoreId, Data(seq[k]), currentUserId,
                currentProjectId)]

\* saveProjectData(): throws without a project context; else starts one
\* save per object, group and light and awaits Promise.all of them
SaveProjectData ==
    LET attempts ==
            SaveAttempts(objects, "objects",
                LAMBDA o : objectToFirestore(o, currentUserId, currentProjectId))
            \o SaveAttempts(groups, "groups",
                LAMBDA g : FirestoreGroup(g, currentUserId, currentProjectId))
            \o SaveAttempts(lights, "lights",
                LAMBDA l : FirestoreLight(l, currentUserId, currentProjectId))
    IN
    /\ BulkIdle
    /\ IF ~HasContext
       THEN /\ batch' = [Bulk("saveProjectData", <<>>, <<>>, currentUserId,
                              currentProjectId) EXCEPT !.promise = "rejected"]
            /\ UNCHANGED hasUnsavedChanges
       ELSE /\ batch' = Bulk("saveProjectData", <<>>, attempts, currentUserId,
                             currentProjectId)
            /\ hasUnsavedChanges' = IF attempts = <<>> THEN FALSE
                                    ELSE hasUnsavedChanges
    /\ last' = [op |-> "saveProjectData", id |-> NoId]
    /\ BulkUntouched

\* saveObjectsBatch(objects, userId, projectId): one saveObject per record
SaveObjectsBatch(records, userId, projectId) ==
    /\ BulkIdle
    /\ batch' = Bulk("saveObjectsBatch", <<>>,
                     [k \in DOMAIN records |->
                         Attempt(NoId, "objects", "create", NoId,
                                 records[k] @@ [userId |-> userId,
                                                projectId |-> projectId],
                                 userId, projectId)],
                     userId, projectId)
    /\ last' = [op |-> "saveObjectsBatch", id |-> NoId]
    /\ BulkUntouched /\ UNCHANGED hasUnsavedChanges

\* deleteObjectsBatch(ids, projectId): one deleteObject per id
DeleteObjectsBatch(ids, projectId) ==
    /\ BulkIdle
    /\ batch' = Bulk("deleteObjectsBatch", <<>>,
                     [k \in DOMAIN ids |->
                         Attempt(NoId, "objects", "delete", ids[k], NoDrag,
                                 NoId, projectId)],
                     NoId, projectId)
    /\ last' = [op |-> "deleteObjectsBatch", id |-> NoId]
    /\ BulkUntouched /\ UNCHANGED hasUnsavedChanges

\* clearProjectData(userId, projectId) of the gateway: getDocs on one
\* collection after the other, a deleteDoc started for every document as
\* soon as its collection is read (the scenes collection is left out)
ClearProjectDocuments(userId, projectId) ==
    /\ BulkIdle
    /\ batch' = Bulk("clearProjectData", <<"objects", "groups", "lights">>,
                     <<>>, userId, projectId)
    /\ last' = [op |-> "clearProjectDocuments", id |-> projectId]
    /\ BulkUntouched /\ UNCHANGED hasUnsavedChanges

\* copyProjectData(sourceProjectId, targetProjectId, userId): the source's
\* collections are read together, then one save per document is started
CopyProjectData(sourceProjectId, targetProjectId, userId) ==
    /\ BulkIdle
    /\ batch' = Bulk("copyProjectData", <<"all">>, <<>>, userId,
                     sourceProjectId) @@ [target |-> targetProjectId]
    /\ last' = [op |-> "copyProjectData", id |-> targetProjectId]
    /\ BulkUntouched /\ UNCHANGED hasUnsavedChanges

\* the documents of a collection a query by user and project returns
DocsOf(coll, userId, projectId) ==
    SelectSeq(CollectionOf(coll),
              LAMBDA d : d.userId = userId /\ d.projectId = projectId)

\* what the bulk operation starts when a read has returned: clearProjectData
\* a deleteDoc per document read, copyProjectData a save per document of
\* the source, without its id and under the target project
StartedAfterRead(b, coll) ==
    LET Deletes(name) ==
            LET docs == DocsOf(name, b.user, b.project) IN
            [k \in DOMAIN docs |->
                Attempt(NoId, name, "delete", docs[k].id, NoDrag, b.user,
                        b.project)]
        Copies(name) ==
            LET docs == DocsOf(name, b.user, b.project) IN
            [k \in DOMAIN docs |->
                Attempt(NoId, name, "create", NoId,
                        [f \in DOMAIN docs[k] \ {"id"} |->
                            IF f = "projectId" THEN b.target ELSE docs[k][f]],
                        b.user, b.target)]
    IN  IF b.op = "clearProjectData" THEN Deletes(coll)
        ELSE Copies("objects") \o Copies("groups") \o Copies("lights")

\* the read a bulk operation awaits returns or fails
BulkRead(ok) ==
    /\ batch # NoDrag
    /\ batch.promise = "pending"
    /\ batch.reads # <<>>
    /\ LET reads == Tail(batch.reads)
           attempts == batch.attempts
                           \o StartedAfterRead(batch, Head(batch.reads))
       IN  batch' = IF ok
                    THEN [batch EXCEPT !.reads = reads,
                                       !.attempts = attempts,
                                       !.promise = PromiseAll(reads, attempts)]
                    ELSE [batch EXCEPT !.promise = "rejected"]
    /\ last' = [op |-> IF ok THEN "bulkRead" ELSE "bulkReadRejected",
                id |-> NoId]
    /\ BulkUntouched /\ UNCHANGED hasUnsavedChanges

\* the document store carries out the k-th per-record call of the bulk
\* operation
BulkApply(k) ==
    /\ batch # NoDrag
    /\ k \in DOMAIN batch.attempts
    /\ LET c == batch.attempts[k] IN
       /\ c.status = "sent"
       /\ c.kind = "update" => DocExists(CollectionOf(c.coll), c)
       /\ c.kind = "create" => nextDoc <= DocId(MaxDocs)
       /\ remoteObjects' = IF c.coll = "objects" THEN AppliedTo(c)
                           ELSE remoteObjects
       /\ remoteGroups' = IF c.coll = "groups" THEN AppliedTo(c)
                          ELSE remoteGroups
       /\ remoteLights' = IF c.coll = "lights" THEN AppliedTo(c)
                          ELSE remoteLights
       /\ nextDoc' = IF c.kind = "create" THEN nextDoc + 1 ELSE nextDoc
       /\ undelivered' =
             IF /\ subscribed.project = c.project
                /\ c.user \in {NoId, subscribed.user}
             THEN [undelivered EXCEPT ![c.coll] = TRUE]
             ELSE undelivered
       /\ batch' = [batch EXCEPT
                       !.attempts[k].status = "ok",
                       !.attempts[k].doc = IF c.kind = "create" THEN nextDoc
                                           ELSE c.doc]
    /\ last' = [op |-> "bulkGateway", id |-> NoId]
    /\ UNCHANGED <<sceneVars, modeVars, dragVars, shapeVars, historyVars, geom,
                   hasUnsavedChanges, projectVars, timers, pending, nextId,
                   commits, undoCalls>>

\* the k-th per-record call settles.  Promise.all, when the bulk operation
\* is awaiting it, settles in the same turn if this was a rejection or the
\* last fulfilment.  saveProjectData writes the new document id onto the
\* entity it saved (`obj.firestoreId = newId`; the entity is the one in the
\* store as long as no handler has replaced it with a copy) and, after
\* Promise.all, clears hasUnsavedChanges.
BulkAttemptSettled(k, ok) ==
    /\ batch # NoDrag
    /\ k \in DOMAIN batch.attempts
    /\ LET c == batch.attempts[k]
           attempts == [batch.attempts EXCEPT
                           ![k].status = IF ok THEN "done" ELSE "failed"]
           promise == IF batch.promise = "pending"
                      THEN PromiseAll(batch.reads, attempts)
                      ELSE batch.promise
           saved == batch.op = "saveProjectData" /\ ok /\ c.kind = "create"
       IN
       /\ c.status = IF ok THEN "ok" ELSE "sent"
       /\ batch' = [batch EXCEPT !.attempts = attempts, !.promise = promise]
       /\ objects' = IF saved /\ c.coll = "objects"
                     THEN WithFirestoreId(objects, c.id, c.doc) ELSE objects
       /\ groups' = IF saved /\ c.coll = "groups"
                    THEN WithFirestoreId(groups, c.id, c.doc) ELSE groups
       /\ lights' = IF saved /\ c.coll = "lights"
                    THEN WithFirestoreId(lights, c.id, c.doc) ELSE lights
       /\ hasUnsavedChanges' =
             IF /\ batch.op = "saveProjectData"
                /\ batch.promise = "pending"
                /\ promise = "fulfilled"
             THEN FALSE ELSE hasUnsavedChanges
    /\ last' = [op |-> IF ok THEN "bulkAttemptResolved"
                       ELSE "bulkAttemptRejected",
                id |-> NoId]
    /\ UNCHANGED <<selectedObject, selectedLight, modeVars, dragVars,
                   shapeVars, historyVars, geom, projectVars, remoteVars, timers,
                   pending, nextId, commits, undoCalls>>

----------------------------------------------------------------------------
(* Geometry codec *)

\* A geometry is [class, parameters, position, normal, uv, index]: the
\* class it was constructed as, its `parameters` bag (field name -> number,
\* numbers counted in tenths so that 0.5 is 5) and its buffers as flat
\* arrays; an attribute a geometry does not have is the empty array.
\* A field that is undefined is missing from the bag.
NoParameters == [f \in {} |-> 0]

\* undefined / null for documents and for optional document fields
Absent == [absent |-> TRUE]

\* `geometry instanceof THREE.<class>`; a ConeGeometry is a CylinderGeometry
InstanceOf(geometry, class) ==
    \/ geometry.class = class
    \/ class = "BufferGeometry"
    \/ class = "CylinderGeometry" /\ geometry.class = "ConeGeometry"

\* `bag.field ?? dflt`
OrElse(bag, field, dflt) == IF field \in DOMAIN bag THEN bag[field] ELSE dflt

\* `bag.field || dflt`
OrIfFalsy(bag, field, dflt) ==
    IF field \in DOMAIN bag /\ bag[field] # 0 THEN bag[field] ELSE dflt

\* `bag.field !== undefined`
Defined(bag, field) == field \in DOMAIN bag

\* the fields of `bag` among `fields`: an object literal whose undefined
\* values are left out
Pick(bag, fields) == [f \in fields \cap DOMAIN bag |-> bag[f]]

\* the buffers a THREE constructor generates: one triangle
GeneratedVertices == <<0, 0, 0, 10, 0, 0, 0, 10, 0>>
GeneratedNormals == <<0, 0, 10, 0, 0, 10, 0, 0, 10>>
GeneratedIndex == <<0, 1, 2>>

\* geometry.computeVertexNormals(): one normal per vertex, when the
\* geometry has a position attribute
computeVertexNormals(position) == [k \in DOMAIN position |-> 0]

\* new THREE.<class>(...): the arguments as its parameters, an undefined
\* argument replaced by the constructor's default (2 * Math.PI is 63 tenths)
Construct(class, parameters, defaults) ==
    [class |-> class,
     parameters |-> [f \in DOMAIN defaults |-> OrElse(parameters, f, defaults[f])],
     position |-> GeneratedVertices, normal |-> GeneratedNormals,
     uv |-> <<>>, index |-> GeneratedIndex]

\* serializeGeometry(geometry)
serializeGeometry(geometry) ==
    [vertices |-> geometry.position, normals |-> geometry.normal,
     uvs |-> geometry.uv, indices |-> geometry.index,
     parameters |-> geometry.parameters]

\* deserializeGeometry(customGeometry)
deserializeGeometry(customGeometry) ==
    [class |-> "BufferGeometry",
     parameters |-> customGeometry.parameters,
     position |-> customGeometry.vertices,
     normal |-> IF customGeometry.normals = <<>>
                THEN computeVertexNormals(customGeometry.vertices)
                ELSE customGeometry.normals,
     uv |-> customGeometry.uvs,
     index |-> customGeometry.indices]

\* the names given to the meshes handed to the codec, and their characters
CodecNames == {"A", "Star", "HEART", "cube"}

Spelling(name) ==
    CASE name = "A" -> <<"A">>
      [] name = "Star" -> <<"S", "t", "a", "r">>
      [] name = "HEART" -> <<"H", "E", "A", "R", "T">>
      [] name = "cube" -> <<"c", "u", "b", "e">>

\* a variant of toLowerCase that leaves the characters as they are
toLowerCaseKeeping(chars) == chars

\* String.prototype.toLowerCase
toLowerCase(chars) ==
    LET lower == [A |-> "a", E |-> "e", H |-> "h", R |-> "r", S |-> "s",
                  T |-> "t"]
    IN  [k \in DOMAIN chars |->
            IF chars[k] \in DOMAIN lower THEN lower[chars[k]] ELSE chars[k]]

\* String.prototype.includes
includes(chars, part) ==
    \E k \in 0..(Len(chars) - Len(part)) :
        SubSeq(chars, k + 1, k + Len(part)) = part

\* `const customNames = ['star', 'heart', 'torus', 'custom']`
customNames ==
    {<<"s", "t", "a", "r">>, <<"h", "e", "a", "r", "t">>,
     <<"t", "o", "r", "u", "s">>, <<"c", "u", "s", "t", "o", "m">>}

\* `customNames.some(customName => name.toLowerCase().includes(customName))`
nameIsCustom(name) ==
    \E customName \in customNames :
        includes(toLowerCase(Spelling(name)), customName)

\* the names of CodecNames that isCustomGeometry takes for custom
CustomNames == {name \in CodecNames : nameIsCustom(name)}

\* isCustomGeometry(geometry, name)
isCustomGeometry(geometry, name) ==
    LET isTorusGeometry == InstanceOf(geometry, "TorusGeometry")
        hasStandardParams ==
            \/ InstanceOf(geometry, "BoxGeometry")
            \/ InstanceOf(geometry, "SphereGeometry")
            \/ InstanceOf(geometry, "CylinderGeometry")
            \/ InstanceOf(geometry, "ConeGeometry")
    IN  nameIsCustom(name) \/ isTorusGeometry \/ ~hasStandardParams

\* the customGeometry objectToFirestore writes
CustomGeometryOf(geometry) ==
    LET serialized == serializeGeometry(geometry) IN
    IF InstanceOf(geometry, "TorusGeometry")
    THEN [serialized EXCEPT
            !.parameters = Pick(geometry.parameters,
                                {"radius", "tube", "radialSegments",
                                 "tubularSegments", "arc"})]
         @@ [type |-> "torus"]
    ELSE serialized @@ [type |-> "custom"]

\* objectToFirestore(object, name) for a mesh: the type, geometryParams and
\* customGeometry of the record
geometryToFirestore(object, name) ==
    LET geometry == object.geometry
        p == geometry.parameters
    IN
    IF isCustomGeometry(geometry, name)
    THEN [type |-> "CustomMesh", geometryParams |-> Absent,
          customGeometry |-> CustomGeometryOf(geometry)]
    ELSE IF InstanceOf(geometry, "BoxGeometry")
    THEN [type |-> object.type, customGeometry |-> Absent,
          geometryParams |->
             [width |-> OrElse(p, "width", 10), height |-> OrElse(p, "height", 10),
              depth |-> OrElse(p, "depth", 10)]]
    ELSE IF InstanceOf(geometry, "SphereGeometry")
    THEN [type |-> object.type, customGeometry |-> Absent,
          geometryParams |->
             [radius |-> OrElse(p, "radius", 5),
              widthSegments |-> OrElse(p, "widthSegments", 320),
              heightSegments |-> OrElse(p, "heightSegments", 160)]]
    ELSE IF InstanceOf(geometry, "CylinderGeometry")
    THEN [type |-> object.type, customGeometry |-> Absent,
          geometryParams |->
             [radiusTop |-> OrElse(p, "radiusTop", 5),
              radiusBottom |-> OrElse(p, "radiusBottom", 5),
              height |-> OrElse(p, "height", 10),
              radialSegments |-> OrElse(p, "radialSegments", 320)]]
    ELSE IF InstanceOf(geometry, "ConeGeometry")
    THEN [type |-> object.type, customGeometry |-> Absent,
          geometryParams |->
             [radius |-> OrElse(p, "radius", 5), height |-> OrElse(p, "height", 10),
              radialSegments |-> OrElse(p, "radialSegments", 320)]]
    ELSE [type |-> "CustomMesh", geometryParams |-> Absent,
          customGeometry |-> serializeGeometry(geometry) @@ [type |-> "custom"]]

\* the geometry firestoreToObject makes for a record of type 'Mesh' or
\* 'CustomMesh'
GeometryOfRecord(data) ==
    LET cg == data.customGeometry
        gp == data.geometryParams
    IN
    IF cg # Absent
    THEN IF cg.type = "torus"
         THEN Construct("TorusGeometry",
                        [radius |-> OrIfFalsy(cg.parameters, "radius", 10),
                         tube |-> OrIfFalsy(cg.parameters, "tube", 4),
                         radialSegments |-> OrIfFalsy(cg.parameters, "radialSegments", 80),
                         tubularSegments |-> OrIfFalsy(cg.parameters, "tubularSegments", 160),
                         arc |-> OrIfFalsy(cg.parameters, "arc", 63)],
                        [radius |-> 10, tube |-> 4, radialSegments |-> 80,
                         tubularSegments |-> 160, arc |-> 63])
         ELSE deserializeGeometry(cg)
    ELSE IF gp # Absent
    THEN IF Defined(gp, "width")
         THEN Construct("BoxGeometry", Pick(gp, {"width", "height", "depth"}),
                        [width |-> 10, height |-> 10, depth |-> 10])
         ELSE IF Defined(gp, "radius") /\ Defined(gp, "widthSegments")
         THEN Construct("SphereGeometry",
                        Pick(gp, {"radius", "widthSegments", "heightSegments"}),
                        [radius |-> 10, widthSegments |-> 320, heightSegments |-> 160])
         ELSE IF Defined(gp, "radiusTop")
         THEN Construct("CylinderGeometry",
                        Pick(gp, {"radiusTop", "radiusBottom", "height",
                                  "radialSegments"}),
                        [radiusTop |-> 10, radiusBottom |-> 10, height |-> 10,
                         radialSegments |-> 320])
         ELSE IF Defined(gp, "radius") /\ Defined(gp, "radialSegments")
         THEN Construct("ConeGeometry",
                        Pick(gp, {"radius", "height", "radialSegments"}),
                        [radius |-> 10, height |-> 10, radialSegments |-> 320])
         ELSE Construct("BoxGeometry", [width |-> 10, height |-> 10, depth |-> 10],
                        [width |-> 10, height |-> 10, depth |-> 10])
    ELSE Construct("BoxGeometry", [width |-> 10, height |-> 10, depth |-> 10],
                   [width |-> 10, height |-> 10, depth |-> 10])

\* firestoreToObject(data): a mesh, or null for a type it does not rebuild
firestoreToObject(data) ==
    IF data.type \in {"Mesh", "CustomMesh"}
    THEN [type |-> "Mesh", geometry |-> GeometryOfRecord(data)]
    ELSE Absent

----------------------------------------------------------------------------
(* Segment counts *)

\* the geometry a caller hands to addObject for a mesh of the kind: its
\* class and the parameters its constructor records (numbers in tenths,
\* 2 * Math.PI is 63)
Constructed(kind) ==
    CASE kind = "cylinder" ->
            [class |-> "CylinderGeometry",
             parameters |-> [radiusTop |-> 5, radiusBottom |-> 5, height |-> 20,
                             radialSegments |-> 320, heightSegments |-> 10,
                             openEnded |-> 0, thetaStart |-> 0,
                             thetaLength |-> 63]]
      [] kind = "cone" ->
            [class |-> "ConeGeometry",
             parameters |-> [radius |-> 5, height |-> 20, radialSegments |-> 320,
                             heightSegments |-> 10, openEnded |-> 0,
                             thetaStart |-> 0, thetaLength |-> 63]]
      [] kind = "sphere" ->
            [class |-> "SphereGeometry",
             parameters |-> [radius |-> 5, widthSegments |-> 320,
                             heightSegments |-> 160, phiStart |-> 0,
                             phiLength |-> 63, thetaStart |-> 0,
                             thetaLength |-> 31]]
      [] OTHER -> [class |-> "BoxGeometry",
                   parameters |-> [width |-> 10, height |-> 10, depth |-> 10]]

\* `mesh.geometry` of an object of the scene
GeometryOf(obj) ==
    IF obj.mesh \in DOMAIN shapes THEN shapes[obj.mesh]
    ELSE Constructed(obj.geometry)

\* the parameters a THREE constructor takes and its defaults for the
\* arguments that are undefined
CylinderDefaults ==
    [radiusTop |-> 10, radiusBottom |-> 10, height |-> 10,
     radialSegments |-> 320, heightSegments |-> 10, openEnded |-> 0,
     thetaStart |-> 0, thetaLength |-> 63]

SphereDefaults ==
    [radius |-> 10, widthSegments |-> 320, heightSegments |-> 160,
     phiStart |-> 0, phiLength |-> 63, thetaStart |-> 0, thetaLength |-> 31]

\* `new THREE.CylinderGeometry(old.radiusTop, old.radiusBottom, old.height,
\* vertexCount, old.heightSegments, old.openEnded, old.thetaStart,
\* old.thetaLength)`
NewCylinder(old, vertexCount) ==
    Construct("CylinderGeometry",
              [radialSegments |-> vertexCount]
                  @@ Pick(old.parameters, DOMAIN CylinderDefaults),
              CylinderDefaults)

\* `new THREE.SphereGeometry(old.radius, vertexCount, vertexCount / 2,
\* old.phiStart, old.phiLength, old.thetaStart, old.thetaLength)`
NewSphere(old, vertexCount) ==
    Construct("SphereGeometry",
              [widthSegments |-> vertexCount,
               heightSegments |-> vertexCount \div 2]
                  @@ Pick(old.parameters, DOMAIN SphereDefaults),
              SphereDefaults)

\* updateCylinderVertices(vertexCount) and updateSphereVertices(vertexCount):
\* nothing happens unless the selected mesh has a geometry of the class and
\* is not locked.  Else the mesh gets the new geometry; saveToHistory and
\* updateObjectProperties are called from inside the updater, and the
\* updater then returns `{...state, selectedElements}` with the state it was
\* handed: what the two calls wrote to the store in the same turn (the
\* snapshot, hasUnsavedChanges) is overwritten with the values from before,
\* and what is left of them is the updateObject call in flight.
\* A selected mesh is taken to be one of the scene.
UpdateVertices(op, class, kind, New(_, _), vertexCount) ==
    LET i == FindByMesh(objects, selectedObject) IN
    /\ selectedObject # NoMesh => i # 0
    /\ IF \/ ~IsMesh(selectedObject)
          \/ ~InstanceOf(GeometryOf(objects[i]), class)
          \/ SelectedLocked
       THEN /\ last' = [op |-> op \o "Noop", id |-> NoId,
                       count |-> vertexCount]
            /\ UNCHANGED <<sceneVars, modeVars, editVars, historyVars, geom,
                           hasUnsavedChanges, projectVars, remoteVars, timers,
                           pending, nextId, commits, undoCalls>>
       ELSE LET made == New(GeometryOf(objects[i]), vertexCount)
                obj == [objects[i] EXCEPT !.geometry = kind]
            IN
            /\ objects[i].firestoreId # NoId /\ HasContext => CanSuspend
            /\ shapes' = [h \in DOMAIN shapes \cup {selectedObject} |->
                             IF h = selectedObject
                             THEN [class |-> made.class,
                                   parameters |-> made.parameters]
                             ELSE shapes[h]]
            /\ geom' = [geom EXCEPT ![selectedObject] = BufferOf(kind)]
            /\ objects' = [objects EXCEPT ![i] = obj]
            /\ selectedElements' = [vertices |-> <<>>, edges |-> <<>>,
                                    faces |-> <<>>]
            /\ pending' =
                  IF objects[i].firestoreId # NoId /\ HasContext
                  THEN Append(pending,
                          Call("updateObjectProperties", obj.id, "objects",
                               "update", obj.firestoreId,
                               PropertiesPatch(obj, currentUserId,
                                               currentProjectId),
                               NoCapture))
                  ELSE pending
            /\ last' = [op |-> op, id |-> obj.id, count |-> vertexCount]
            /\ UNCHANGED <<groups, lights, selectedObject, selectedLight,
                           modeVars, draggedVertex, draggedEdge, gesture, codec,
                           placeVars, bulkVars, historyVars, hasUnsavedChanges,
                           projectVars, remoteVars, timers, nextId, commits,
                           undoCalls>>

UpdateCylinderVertices(vertexCount) ==
    UpdateVertices("updateCylinderVertices", "CylinderGeometry", "cylinder",
                   NewCylinder, vertexCount)

UpdateSphereVertices(vertexCount) ==
    UpdateVertices("updateSphereVertices", "SphereGeometry", "sphere",
                   NewSphere, vertexCount)

----------------------------------------------------------------------------
(* Inputs *)

\* names a caller passes
Names == {"A", "B"}

\* THREE object types and geometry classes of the meshes a caller adds: a
\* box and a sphere mesh, and a THREE.Group (which the store cannot rebuild)
Shapes == {<<"Mesh", "box">>, <<"Mesh", "sphere">>, <<"Group", "none">>}

\* local ids a caller may name: the ids handed out so far
Ids == 1..(nextId - 1)

\* the project and the user of the session
Projects == {1}
Users == {1}

\* the meshes a caller may select
Meshes == {objects[k].mesh : k \in DOMAIN objects}

\* id lists a caller passes to createGroup and moveObjectsToGroup
IdLists == {<<>>} \cup {<<a>> : a \in Ids}

----------------------------------------------------------------------------
(* Specifications *)

\* the handler calls of a session
Handlers ==
    \/ \E p \in Projects, u \in Users : SetCurrentProject(p, u)
    \/ SetCurrentProject(NoId, NoId)
    \/ \E n \in Names, s \in Shapes : AddObject(n, s[1], s[2])
    \/ \E id \in Ids : RemoveObject(id)
    \/ \E id \in Ids : ToggleVisibility(id)
    \/ \E id \in Ids : ToggleLock(id)
    \/ \E id \in Ids, n \in Names : UpdateObjectName(id, n)
    \/ \E m \in Meshes \cup {NoMesh} : SetSelectedObject(m)
    \/ UpdateObjectProperties
    \/ DuplicateObject
    \/ \E n \in Names, ids \in IdLists : CreateGroup(n, ids)
    \/ \E g \in Ids : RemoveGroup(g)
    \/ \E o \in Ids, g \in Ids : AddObjectToGroup(o, g)
    \/ \E o \in Ids : RemoveObjectFromGroup(o)
    \/ \E ids \in IdLists, g \in Ids \cup {NoId} : MoveObjectsToGroup(ids, g)
    \/ \E g \in Ids : ToggleGroupVisibility(g)
    \/ \E g \in Ids : ToggleGroupLock(g)
    \/ \E g \in Ids, n \in Names : UpdateGroupName(g, n)
    \/ \E g \in Ids : ToggleGroupExpanded(g)
    \/ \E t \in {"point"} : AddLight(t)
    \/ \E l \in Ids : RemoveLight(l)
    \/ \E l \in Ids, v \in {1, 2} : UpdateLight(l, v)
    \/ \E l \in Ids : ToggleLightVisibility(l)
    \/ \E l \in Ids \cup {NoId} : SetSelectedLight(l)
    \/ Undo
    \/ Redo

\* what runs between the calls: the gateway carries out a pending call, a
\* suspended handler resumes, a deferred commit runs, a snapshot arrives
Continuations ==
    \/ \E i \in DOMAIN pending : GatewayApply(i)
    \/ DeliverObjects
    \/ DeliverGroups
    \/ DeliverLights
    \/ TimerFire
    \/ \E i \in DOMAIN pending : AddObjectResolved(i)
    \/ \E i \in DOMAIN pending : AddObjectRejected(i)
    \/ \E i \in DOMAIN pending, ok \in BOOLEAN :
          \/ RemoveObjectSettled(i, ok)
          \/ ToggleVisibilitySettled(i, ok)
          \/ ToggleLockSettled(i, ok)
          \/ UpdateObjectNameSettled(i, ok)
          \/ UpdateObjectPropertiesSettled(i, ok)
          \/ DuplicateObjectSettled(i, ok)
          \/ CreateGroupSettled(i, ok)
          \/ RemoveGroupSettled(i, ok)
          \/ AddObjectToGroupSettled(i, ok)
          \/ RemoveObjectFromGroupSettled(i, ok)
          \/ WriteBackSettled(i, ok)
          \/ AddLightSettled(i, ok)
          \/ RemoveLightSettled(i, ok)

Next == Counted(Handlers) \/ Free(Continuations)

Spec == Init /\ [][Next]_vars

\* the local ids of the objects, groups and lights in the scene
ObjectIds == {objects[k].id : k \in DOMAIN objects}
GroupIds == {groups[k].id : k \in DOMAIN groups}
LightIds == {lights[k].id : k \in DOMAIN lights}

\* the project is opened before anything else is done
OpenProject ==
    nextId = 1 /\ currentProjectId = NoId /\ SetCurrentProject(1, 1)

\* Undo and redo of an edited scene: a box is added first, with or without
\* a project, lights come and go, and the two history handlers run.
NextUndo ==
    \/ Counted(OpenProject)
    \/ Counted(nextId = 1 /\ AddObject("A", "Mesh", "box"))
    \/ Counted(AddLight("point"))
    \/ \E l \in LightIds : Counted(RemoveLight(l))
    \/ Counted(Undo)
    \/ Counted(Redo)
    \/ \E i \in DOMAIN pending : Free(GatewayApply(i))
    \/ \E i \in DOMAIN pending : Free(AddObjectResolved(i))
    \/ \E i \in DOMAIN pending : Free(AddObjectRejected(i))
    \/ Free(TimerFire)
    \/ \E i \in DOMAIN pending, ok \in BOOLEAN : Free(AddLightSettled(i, ok))
    \/ \E i \in DOMAIN pending, ok \in BOOLEAN : Free(RemoveLightSettled(i, ok))

SpecUndo == Init /\ [][NextUndo]_vars

\* Editing objects while gateway calls are in flight: boxes are added to an
\* open project and the handlers that await the gateway before they write
\* run on them.
NextEdits ==
    \/ Counted(OpenProject)
    \/ Counted(AddObject("A", "Mesh", "box"))
    \/ \E id \in ObjectIds : Counted(RemoveObject(id))
    \/ \E id \in ObjectIds : Counted(ToggleVisibility(id))
    \/ \E id \in ObjectIds : Counted(ToggleLock(id))
    \/ \E id \in ObjectIds : Counted(UpdateObjectName(id, "B"))
    \/ \E i \in DOMAIN pending : Free(GatewayApply(i))
    \/ \E i \in DOMAIN pending : Free(AddObjectResolved(i))
    \/ \E i \in DOMAIN pending : Free(AddObjectRejected(i))
    \/ Free(TimerFire)
    \/ \E i \in DOMAIN pending, ok \in BOOLEAN : Free(RemoveObjectSettled(i, ok))
    \/ \E i \in DOMAIN pending, ok \in BOOLEAN : Free(ToggleVisibilitySettled(i, ok))
    \/ \E i \in DOMAIN pending, ok \in BOOLEAN : Free(ToggleLockSettled(i, ok))
    \/ \E i \in DOMAIN pending, ok \in BOOLEAN : Free(UpdateObjectNameSettled(i, ok))

SpecEdits == Init /\ [][NextEdits]_vars

\* id lists a caller passes to createGroup and moveObjectsToGroup
ObjectIdLists == {<<>>} \cup {<<o>> : o \in ObjectIds}

\* Grouping without a project: every handler runs to its end in one step.
NextGroups ==
    \/ Counted(AddObject("A", "Mesh", "box"))
    \/ \E ids \in ObjectIdLists : Counted(CreateGroup("G", ids))
    \/ \E g \in GroupIds : Counted(RemoveGroup(g))
    \/ \E o \in ObjectIds, g \in GroupIds : Counted(AddObjectToGroup(o, g))
    \/ \E o \in ObjectIds : Counted(RemoveObjectFromGroup(o))
    \/ \E ids \in ObjectIdLists, g \in GroupIds \cup {NoId} :
          Counted(MoveObjectsToGroup(ids, g))
    \/ \E o \in ObjectIds : Counted(RemoveObject(o))
    \/ \E m \in Meshes : Counted(SetSelectedObject(m))
    \/ Counted(DuplicateObject)
    \/ Counted(Undo)
    \/ Counted(Redo)
    \/ Free(TimerFire)

SpecGroups == Init /\ [][NextGroups]_vars

\* Inbound snapshots of an open project: objects (meshes and a THREE.Group),
\* groups and lights are created, the gateway carries the creates out (no
\* call is rejected), and the three listeners deliver.
NextSync ==
    \/ Counted(OpenProject)
    \/ \E s \in {<<"Mesh", "box">>, <<"Group", "none">>} :
          Counted(AddObject("A", s[1], s[2]))
    \/ Counted(CreateGroup("G", <<>>))
    \/ Counted(AddLight("point"))
    \/ \E i \in DOMAIN pending : Free(GatewayApply(i))
    \/ \E i \in DOMAIN pending : Free(AddObjectResolved(i))
    \/ \E i \in DOMAIN pending : Free(CreateGroupSettled(i, TRUE))
    \/ \E i \in DOMAIN pending : Free(AddLightSettled(i, TRUE))
    \/ Free(TimerFire)
    \/ Free(DeliverObjects)
    \/ Free(DeliverGroups)
    \/ Free(DeliverLights)

SpecSync == Init /\ [][NextSync]_vars

\* handler calls explored when meshes are edited
MaxEditCalls == 6

\* one of the MaxEditCalls handler calls of a mesh-editing session
Edit(A) == calls < MaxEditCalls /\ calls' = calls + 1 /\ A

\* positions a pointer drags to
DragTargets == {<<0, 0, 0>>, <<5, 0, 0>>}

\* vertices a pointer picks: one of the corner, the one within the tolerance
\* of the corner, the one far away
PickedVertices == {1, 2, 4}

\* edges a pointer picks, with weld groups that overlap and that do not
PickedEdges == {<<0, 3>>, <<3, 4>>}

\* Mesh editing without a project: one or two boxes are added, selected and
\* dragged by vertex and by edge; locks, undo and redo come between.
NextDrag ==
    \/ Edit(nextId <= 2 /\ AddObject("A", "Mesh", "box"))
    \/ \E m \in Meshes : Edit(SetSelectedObject(m))
    \/ \E i \in PickedVertices :
          Edit(IsMesh(selectedObject)
               /\ StartVertexDrag(i, geom[selectedObject][i]))
    \/ \E p \in DragTargets : Edit(UpdateVertexDrag(p))
    \/ Edit(EndVertexDrag)
    \/ \E e \in PickedEdges :
          Edit(IsMesh(selectedObject)
               /\ StartEdgeDrag(e, <<geom[selectedObject][e[1]],
                                     geom[selectedObject][e[2]]>>,
                                <<1, 0, 0>>))
    \/ \E p \in DragTargets : Edit(UpdateEdgeDrag(p))
    \/ Edit(EndEdgeDrag)
    \/ \E id \in ObjectIds : Edit(ToggleLock(id))
    \/ Edit(Undo)
    \/ Edit(Redo)
    \/ Free(TimerFire)

SpecDrag == Init /\ [][NextDrag]_vars

----------------------------------------------------------------------------
(* The codec on its own *)

\* a position buffer after a vertex was dragged
EditedVertices == <<0, 0, 0, 10, 0, 0, 0, 30, 0>>

\* parameter bags of the meshes handed to the codec, per class: a full one
\* and one with fields undefined
CodecParameters(class) ==
    CASE class = "BoxGeometry" ->
            {[width |-> 20, height |-> 10, depth |-> 10],
             [width |-> 20, height |-> 10]}
      [] class = "SphereGeometry" ->
            {[radius |-> 10, widthSegments |-> 160, heightSegments |-> 80],
             [radius |-> 10]}
      [] class = "CylinderGeometry" ->
            {[radiusTop |-> 0, radiusBottom |-> 10, height |-> 20,
              radialSegments |-> 80],
             [radiusTop |-> 5, radiusBottom |-> 5, height |-> 20]}
      [] class = "ConeGeometry" ->
            {[radius |-> 10, height |-> 20, radialSegments |-> 80],
             [radius |-> 10, height |-> 20]}
      [] class = "TorusGeometry" ->
            {[radius |-> 10, tube |-> 4, radialSegments |-> 80,
              tubularSegments |-> 160, arc |-> 63]}

\* the meshes handed to the codec: constructed ones, as constructed or with
\* a vertex dragged, and meshes of plain buffers with and without an index
\* and normals
CodecMeshes ==
    {[type |-> "Mesh",
      geometry |-> [class |-> c, parameters |-> p, position |-> v,
                    normal |-> GeneratedNormals, uv |-> <<>>,
                    index |-> GeneratedIndex]] :
        c \in {"BoxGeometry", "SphereGeometry", "CylinderGeometry",
               "ConeGeometry", "TorusGeometry"},
        p \in UNION {CodecParameters(k) :
                        k \in {"BoxGeometry", "SphereGeometry",
                               "CylinderGeometry", "ConeGeometry",
                               "TorusGeometry"}},
        v \in {GeneratedVertices, EditedVertices}}
    \cup
    {[type |-> "Mesh",
      geometry |-> [class |-> "BufferGeometry", parameters |-> NoParameters,
                    position |-> v, normal |-> n, uv |-> <<>>, index |-> i]] :
        v \in {GeneratedVertices, EditedVertices},
        n \in {<<>>, GeneratedNormals},
        i \in {<<>>, GeneratedIndex}}

\* a mesh and a name are handed to the codec
InitCodec ==
    /\ InitStore
    /\ \E object \in CodecMeshes, name \in CodecNames :
          /\ object.geometry.class # "BufferGeometry" =>
                object.geometry.parameters
                    \in CodecParameters(object.geometry.class)
          /\ codec = [stage |-> "mesh", object |-> object, name |-> name,
                      record |-> Absent, rebuilt |-> Absent, again |-> Absent]

\* the store's variables but the codec's
storeVars ==
    <<sceneVars, modeVars, draggedVertex, draggedEdge, selectedElements,
      gesture, placeVars, bulkVars, shapeVars, historyVars, geom, hasUnsavedChanges,
      projectVars, remoteVars,
      timers, pending, nextId, commits, undoCalls>>

\* objectToFirestore(object, name), as saveObject's caller runs it
Encode ==
    /\ codec.stage = "mesh"
    /\ codec' = [codec EXCEPT !.stage = "record",
                              !.record = geometryToFirestore(codec.object, codec.name)]
    /\ last' = [op |-> "objectToFirestore", id |-> NoId]
    /\ UNCHANGED storeVars

\* firestoreToObject(data), as the objects callback runs it
Decode ==
    /\ codec.stage = "record"
    /\ codec' = [codec EXCEPT !.stage = "rebuilt",
                              !.rebuilt = firestoreToObject(codec.record)]
    /\ last' = [op |-> "firestoreToObject", id |-> NoId]
    /\ UNCHANGED storeVars

\* objectToFirestore on the rebuilt mesh, under the same name
EncodeAgain ==
    /\ codec.stage = "rebuilt"
    /\ codec.rebuilt # Absent
    /\ codec' = [codec EXCEPT !.stage = "again",
                              !.again = geometryToFirestore(codec.rebuilt, codec.name)]
    /\ last' = [op |-> "objectToFirestore", id |-> NoId]
    /\ UNCHANGED storeVars

NextCodec == Free(Encode) \/ Free(Decode) \/ Free(EncodeAgain)

SpecCodec == InitCodec /\ [][NextCodec]_vars

\* Mesh editing in a project: a box is added and saved, snapshots arrive,
\* the box is selected and dragged by vertex or by edge, and the drag's
\* write-back settles.
NextDragSync ==
    \/ Edit(OpenProject)
    \/ Edit(nextId = 1 /\ AddObject("A", "Mesh", "box"))
    \/ \E m \in Meshes : Edit(SetSelectedObject(m))
    \/ Edit(IsMesh(selectedObject)
            /\ StartVertexDrag(1, geom[selectedObject][1]))
    \/ Edit(UpdateVertexDrag(<<5, 0, 0>>))
    \/ Edit(EndVertexDrag)
    \/ Edit(IsMesh(selectedObject)
            /\ StartEdgeDrag(<<0, 3>>, <<geom[selectedObject][0],
                                         geom[selectedObject][3]>>,
                             <<1, 0, 0>>))
    \/ Edit(UpdateEdgeDrag(<<5, 0, 0>>))
    \/ Edit(EndEdgeDrag)
    \/ \E i \in DOMAIN pending : Free(GatewayApply(i))
    \/ \E i \in DOMAIN pending : Free(AddObjectResolved(i))
    \/ \E i \in DOMAIN pending, ok \in BOOLEAN :
          Free(UpdateObjectPropertiesSettled(i, ok))
    \/ Free(DeliverObjects)
    \/ Free(TimerFire)

SpecDragSync == Init /\ [][NextDragSync]_vars

\* Group visibility and group locks without a project: boxes are added and
\* grouped, groups are hidden and locked, and the object-level handlers are
\* called on the members.
NextGroupLocks ==
    \/ Edit(nextId <= 2 /\ AddObject("A", "Mesh", "box"))
    \/ \E ids \in ObjectIdLists : Edit(CreateGroup("G", ids))
    \/ \E o \in ObjectIds, g \in GroupIds : Edit(AddObjectToGroup(o, g))
    \/ \E g \in GroupIds : Edit(ToggleGroupVisibility(g))
    \/ \E g \in GroupIds : Edit(ToggleGroupLock(g))
    \/ \E o \in ObjectIds : Edit(ToggleVisibility(o))
    \/ \E o \in ObjectIds : Edit(ToggleLock(o))
    \/ \E o \in ObjectIds : Edit(UpdateObjectName(o, "B"))
    \/ \E o \in ObjectIds : Edit(RemoveObject(o))
    \/ Free(TimerFire)

SpecGroupLocks == Init /\ [][NextGroupLocks]_vars

\* ids a caller may pass, whether or not an entity has them
AnyIds == 1..MaxIds

\* Calls with ids that may be absent, without a project: an object, a group
\* and a light are made, and every handler that takes an id is called with
\* ids of the scene and with ids nothing has.
NextNotFound ==
    \/ Counted(AddObject("A", "Mesh", "box"))
    \/ Counted(CreateGroup("G", <<>>))
    \/ Counted(AddLight("point"))
    \/ \E id \in AnyIds : Counted(RemoveObject(id))
    \/ \E id \in AnyIds : Counted(ToggleVisibility(id))
    \/ \E id \in AnyIds : Counted(ToggleLock(id))
    \/ \E id \in AnyIds : Counted(UpdateObjectName(id, "B"))
    \/ \E o \in AnyIds, g \in AnyIds : Counted(AddObjectToGroup(o, g))
    \/ \E id \in AnyIds : Counted(RemoveObjectFromGroup(id))
    \/ \E id \in AnyIds : Counted(RemoveGroup(id))
    \/ \E id \in AnyIds : Counted(ToggleGroupVisibility(id))
    \/ \E id \in AnyIds : Counted(ToggleGroupLock(id))
    \/ \E id \in AnyIds : Counted(UpdateGroupName(id, "B"))
    \/ \E id \in AnyIds : Counted(RemoveLight(id))
    \/ \E id \in AnyIds : Counted(UpdateLight(id, 2))
    \/ \E id \in AnyIds : Counted(ToggleLightVisibility(id))
    \/ Free(TimerFire)

SpecNotFound == Init /\ [][NextNotFound]_vars

\* edit modes a caller passes to setEditMode
EditModes == {"null", "vertex", "edge"}

\* Selection and edit modes without a project: solids of every kind are
\* added, locked directly or through a group, selected and deselected, and
\* the edit mode is set by hand.
NextSelect ==
    \/ \E kind \in {"box", "sphere", "cylinder", "cone"} :
          Counted(nextId <= 2 /\ AddObject("A", "Mesh", kind))
    \/ \E ids \in ObjectIdLists : Counted(Len(groups) = 0 /\ CreateGroup("G", ids))
    \/ \E g \in GroupIds : Counted(ToggleGroupLock(g))
    \/ \E o \in ObjectIds : Counted(ToggleLock(o))
    \/ \E mode \in EditModes : Counted(SetEditMode(mode))
    \/ \E m \in Meshes \cup {NoMesh} : Counted(SetSelectedObject(m))
    \/ Free(TimerFire)

SpecSelect == Init /\ [][NextSelect]_vars

\* what the object library hands to startObjectPlacement
ObjectDefs ==
    {[name |-> "A", type |-> "Mesh", geometry |-> "box"],
     [name |-> "B", type |-> "Mesh", geometry |-> "sphere"]}

\* Placement with and without a project: a placement is started, the
\* object is placed or the placement is cancelled, objects are selected and
\* the edit mode is set in between, and saveObject resolves or rejects.
NextPlace ==
    \/ Edit(OpenProject)
    \/ \E def \in ObjectDefs : Edit(StartObjectPlacement(def))
    \/ Edit(PlaceObjectAt)
    \/ Edit(CancelObjectPlacement)
    \/ \E m \in Meshes : Edit(SetSelectedObject(m))
    \/ Edit(SetEditMode("vertex"))
    \/ \E i \in DOMAIN pending : Free(GatewayApply(i))
    \/ \E i \in DOMAIN pending, ok \in BOOLEAN : Free(PlaceObjectAtSettled(i, ok))
    \/ Free(TimerFire)

SpecPlace == Init /\ [][NextPlace]_vars

\* Bulk operations: in an opened project objects are added (their saves
\* resolve or reject), the scene is saved as a whole, and the gateway's bulk
\* functions run on the project's documents.
BulkRecords ==
    LET r(name) == [name |-> name, type |-> "Mesh", geometry |-> "box",
                    visible |-> TRUE, locked |-> FALSE, groupId |-> NoId]
    IN  {<<r("A"), r("B")>>}

BulkIds == {<<DocId(1), DocId(2)>>}

NextBulk ==
    \/ Counted(OpenProject)
    \/ Counted(AddObject("A", "Mesh", "box"))
    \/ Counted(SaveProjectData)
    \/ Counted(\E records \in BulkRecords : SaveObjectsBatch(records, 1, 1))
    \/ Counted(\E ids \in BulkIds : DeleteObjectsBatch(ids, 1))
    \/ Counted(ClearProjectDocuments(1, 1))
    \/ Counted(CopyProjectData(1, 2, 1))
    \/ Free(\E i \in DOMAIN pending : GatewayApply(i))
    \/ Free(\E i \in DOMAIN pending : AddObjectResolved(i))
    \/ Free(\E i \in DOMAIN pending : AddObjectRejected(i))
    \/ Free(\E ok \in BOOLEAN : BulkRead(ok))
    \/ Free(\E k \in 1..MaxIds : BulkApply(k))
    \/ Free(\E k \in 1..MaxIds, ok \in BOOLEAN : BulkAttemptSettled(k, ok))

SpecBulk == Init /\ [][NextBulk]_vars

\* Rejected gateway calls: in an opened project an object, a group and a
\* light are added, the object is hidden, renamed and removed, the scene is
\* saved as a whole, and every gateway call resolves or rejects.
NextFailures ==
    \/ Counted(OpenProject)
    \/ Counted(nextId <= 2 /\ AddObject("A", "Mesh", "box"))
    \/ Counted(CreateGroup("G", <<>>))
    \/ Counted(AddLight("point"))
    \/ \E id \in ObjectIds : Counted(ToggleVisibility(id))
    \/ \E id \in ObjectIds : Counted(UpdateObjectName(id, "B"))
    \/ \E id \in ObjectIds : Counted(RemoveObject(id))
    \/ Counted(SaveProjectData)
    \/ \E i \in DOMAIN pending : Free(GatewayApply(i))
    \/ \E i \in DOMAIN pending : Free(AddObjectResolved(i))
    \/ \E i \in DOMAIN pending : Free(AddObjectRejected(i))
    \/ \E i \in DOMAIN pending, ok \in BOOLEAN : Free(CreateGroupSettled(i, ok))
    \/ \E i \in DOMAIN pending, ok \in BOOLEAN : Free(AddLightSettled(i, ok))
    \/ \E i \in DOMAIN pending, ok \in BOOLEAN : Free(ToggleVisibilitySettled(i, ok))
    \/ \E i \in DOMAIN pending, ok \in BOOLEAN : Free(UpdateObjectNameSettled(i, ok))
    \/ \E i \in DOMAIN pending, ok \in BOOLEAN : Free(RemoveObjectSettled(i, ok))
    \/ \E k \in 1..MaxIds : Free(BulkApply(k))
    \/ \E k \in 1..MaxIds, ok \in BOOLEAN : Free(BulkAttemptSettled(k, ok))
    \/ Free(TimerFire)

SpecFailures == Init /\ [][NextFailures]_vars

\* Projects opened and closed: the store switches between two projects,
\* with and without a user, and is cleared; an object and a light are
\* added in between, their creates are carried out, and the listeners
\* deliver.
NextTeardown ==
    \/ \E p \in {NoId, 1, 2}, u \in {NoId, 1} : Counted(SetCurrentProject(p, u))
    \/ Counted(ClearProjectData)
    \/ Counted(AddObject("A", "Mesh", "box"))
    \/ Counted(AddLight("point"))
    \/ \E i \in DOMAIN pending : Free(GatewayApply(i))
    \/ \E i \in DOMAIN pending : Free(AddObjectResolved(i))
    \/ \E i \in DOMAIN pending : Free(AddLightSettled(i, TRUE))
    \/ Free(DeliverObjects)
    \/ Free(DeliverGroups)
    \/ Free(DeliverLights)

SpecTeardown == Init /\ [][NextTeardown]_vars

\* Lights and the history, without a project: lights are added (each add
\* commits), dimmed, hidden and removed, and the two history handlers run.
NextLights ==
    \/ Edit(AddLight("point"))
    \/ \E l \in LightIds : Edit(UpdateLight(l, 2))
    \/ \E l \in LightIds : Edit(ToggleLightVisibility(l))
    \/ \E l \in LightIds : Edit(RemoveLight(l))
    \/ Edit(Undo)
    \/ Edit(Redo)

SpecLights == Init /\ [][NextLights]_vars

\* the kinds of mesh the segment-count handlers meet
SegmentKinds == {"box", "sphere", "cylinder", "cone"}

\* segment counts a caller asks for, in tenths
SegmentCounts == {80, 320}

\* a scene of up to two meshes of the four kinds, one of them selected, with
\* vertices picked, object and group locks, and the segment-count handlers
NextSegments ==
    \/ \E k \in SegmentKinds : Edit(nextId <= 2 /\ AddObject("A", "Mesh", k))
    \/ \E m \in Meshes : Edit(SetSelectedObject(m))
    \/ Edit(IsMesh(selectedObject)
            /\ StartVertexDrag(4, geom[selectedObject][4]))
    \/ \E id \in ObjectIds : Edit(ToggleLock(id))
    \/ Edit(groups = <<>> /\ CreateGroup("G", <<>>))
    \/ \E o \in ObjectIds, g \in GroupIds : Edit(AddObjectToGroup(o, g))
    \/ \E g \in GroupIds : Edit(ToggleGroupLock(g))
    \/ \E n \in SegmentCounts : Edit(UpdateCylinderVertices(n))
    \/ \E n \in SegmentCounts : Edit(UpdateSphereVertices(n))
    \/ Free(TimerFire)

SpecSegments == Init /\ [][NextSegments]_vars

\* the kinds of geometry the editor's library constructs
RebuildKinds == {"box", "sphere", "cylinder", "cone", "torus"}

\* Mesh editing in a project, for every kind of the library: a mesh is added
\* and saved, it is selected and dragged by vertex or by edge, the drag's
\* write-back settles and the objects snapshot that follows rebuilds the mesh
NextRebuild ==
    \/ Edit(OpenProject)
    \/ \E k \in RebuildKinds : Edit(nextId = 1 /\ AddObject("A", "Mesh", k))
    \/ \E m \in Meshes : Edit(SetSelectedObject(m))
    \/ Edit(IsMesh(selectedObject)
            /\ StartVertexDrag(1, geom[selectedObject][1]))
    \/ Edit(UpdateVertexDrag(<<5, 0, 0>>))
    \/ Edit(EndVertexDrag)
    \/ Edit(IsMesh(selectedObject)
            /\ StartEdgeDrag(<<0, 3>>, <<geom[selectedObject][0],
                                         geom[selectedObject][3]>>,
                             <<1, 0, 0>>))
    \/ Edit(UpdateEdgeDrag(<<5, 0, 0>>))
    \/ Edit(EndEdgeDrag)
    \/ \E i \in DOMAIN pending : Free(GatewayApply(i))
    \/ \E i \in DOMAIN pending : Free(AddObjectResolved(i))
    \/ \E i \in DOMAIN pending, ok \in BOOLEAN :
          Free(UpdateObjectPropertiesSettled(i, ok))
    \/ Free(DeliverObjects)
    \/ Free(TimerFire)

SpecRebuild == Init /\ [][NextRebuild]_vars

\* the name given to the objects added in a project: it tells the project
\* an object was made in
NameIn(projectId) == IF projectId = 1 THEN "A" ELSE "B"

\* Two projects of one user, opened one after the other: objects are added
\* in the open project, the project is loaded, undo runs, and the calls in
\* flight settle before or after the switch
NextSwitch ==
    \/ \E p \in {1, 2} :
          Edit(currentProjectId = p - 1 /\ SetCurrentProject(p, 1))
    \/ Edit(nextId <= 2 /\ HasContext
            /\ AddObject(NameIn(currentProjectId), "Mesh", "box"))
    \/ Edit(1 \in ObjectIds /\ ToggleVisibility(1))
    \/ Edit(HasContext /\ LoadProjectData)
    \/ Edit(Undo)
    \/ \E i \in DOMAIN pending : Free(GatewayApply(i))
    \/ \E i \in DOMAIN pending : Free(LoadProjectDataRead(i))
    \/ \E i \in DOMAIN pending : Free(AddObjectResolved(i))
    \/ \E i \in DOMAIN pending :
          Free(ToggleVisibilitySettled(i, TRUE))
    \/ \E i \in DOMAIN pending :
          Free(LoadProjectDataSettled(i, TRUE))
    \/ Free(DeliverObjects)
    \/ Free(TimerFire)

SpecSwitch == Init /\ [][NextSwitch]_vars

\* handler calls in a trace that saves, restores and saves again
MaxSaveCalls == 7

Saving(A) == calls < MaxSaveCalls /\ calls' = calls + 1 /\ A

\* Saving next to creating: objects are added without or with a project,
\* the project is opened, saveProjectData runs while the create of
\* addObject is in flight or after undo and redo restored a snapshot, and
\* the calls settle
NextCreates ==
    \/ Saving(currentProjectId = NoId /\ SetCurrentProject(1, 1))
    \/ Saving(nextId <= 2 /\ AddObject("A", "Mesh", "box"))
    \/ Saving(SaveProjectData)
    \/ Saving(Undo)
    \/ Saving(Redo)
    \/ \E i \in DOMAIN pending : Free(GatewayApply(i))
    \/ \E i \in DOMAIN pending : Free(AddObjectResolved(i))
    \/ \E k \in 1..MaxIds : Free(BulkApply(k))
    \/ \E k \in 1..MaxIds, ok \in BOOLEAN : Free(BulkAttemptSettled(k, ok))
    \/ Free(TimerFire)

SpecCreates == Init /\ [][NextCreates]_vars

\* Removing and restoring in a project: an object is added and saved, it is
\* removed (the delete succeeds), undo and redo run, and the snapshots of
\* the collection arrive
NextDangling ==
    \/ Counted(OpenProject)
    \/ Counted(nextId <= 2 /\ AddObject("A", "Mesh", "box"))
    \/ \E id \in ObjectIds : Counted(RemoveObject(id))
    \/ Counted(Undo)
    \/ Counted(Redo)
    \/ \E i \in DOMAIN pending : Free(GatewayApply(i))
    \/ \E i \in DOMAIN pending : Free(AddObjectResolved(i))
    \/ \E i \in DOMAIN pending : Free(RemoveObjectSettled(i, TRUE))
    \/ Free(DeliverObjects)
    \/ Free(TimerFire)

SpecDangling == Init /\ [][NextDangling]_vars

\* Locks next to the selection in a project: two objects are added and
\* saved, the first is put in a group and selected, the second is hidden,
\* the group is locked, and the calls in flight settle
NextSelectedLock ==
    \/ Saving(OpenProject)
    \/ Saving(nextId <= 2 /\ AddObject("A", "Mesh", "box"))
    \/ Saving(nextId = 3 /\ CreateGroup("G", <<1>>))
    \/ Saving(<<1, 0>> \in Meshes /\ SetSelectedObject(<<1, 0>>))
    \/ Saving(2 \in ObjectIds /\ ToggleVisibility(2))
    \/ \E g \in GroupIds : Saving(ToggleGroupLock(g))
    \/ \E i \in DOMAIN pending : Free(GatewayApply(i))
    \/ \E i \in DOMAIN pending : Free(AddObjectResolved(i))
    \/ \E i \in DOMAIN pending : Free(CreateGroupSettled(i, TRUE))
    \/ \E i \in DOMAIN pending : Free(ToggleVisibilitySettled(i, TRUE))
    \/ \E i \in DOMAIN pending : Free(WriteBackSettled(i, TRUE))
    \/ Free(TimerFire)

SpecSelectedLock == Init /\ [][NextSelectedLock]_vars

\* Group membership in a project: an object is added and saved, a group is
\* created, the object is put in the group, taken out and moved, every
\* write-back succeeds, and the snapshots of both collections arrive
NextMembership ==
    \/ Edit(OpenProject)
    \/ Edit(nextId = 1 /\ AddObject("A", "Mesh", "box"))
    \/ \E ids \in {<<>>, <<1>>} :
          Edit(nextId = 2 /\ pending = <<>> /\ CreateGroup("G", ids))
    \/ \E g \in GroupIds : Edit(pending = <<>> /\ AddObjectToGroup(1, g))
    \/ Edit(pending = <<>> /\ RemoveObjectFromGroup(1))
    \/ \E g \in GroupIds :
          Edit(pending = <<>> /\ MoveObjectsToGroup(<<1>>, g))
    \/ \E i \in DOMAIN pending : Free(GatewayApply(i))
    \/ \E i \in DOMAIN pending : Free(AddObjectResolved(i))
    \/ \E i \in DOMAIN pending : Free(CreateGroupSettled(i, TRUE))
    \/ \E i \in DOMAIN pending : Free(AddObjectToGroupSettled(i, TRUE))
    \/ \E i \in DOMAIN pending : Free(RemoveObjectFromGroupSettled(i, TRUE))
    \/ \E i \in DOMAIN pending : Free(WriteBackSettled(i, TRUE))
    \/ Free(DeliverObjects)
    \/ Free(DeliverGroups)
    \/ Free(TimerFire)

SpecMembership == Init /\ [][NextMembership]_vars

\* a placement of `def` is under way: it is the pending object, or a
\* placeObjectAt of it awaits its saveObject
Placing(def) ==
    \/ pendingObject = def
    \/ \E i \in DOMAIN pending :
          pending[i].op = "placeObjectAt" /\ pending[i].data.name = def.name

\* Placements one after the other in an opened project: each library entry
\* is started while no placement of it is under way and no object of it is
\* in the scene, so that an object's name tells which placement added it;
\* placeObjectAt may be called again before the first call has come back.
NextPlacing ==
    \/ Edit(OpenProject)
    \/ \E def \in ObjectDefs :
          Edit(/\ ~Placing(def)
               /\ \A k \in DOMAIN objects : objects[k].name # def.name
               /\ StartObjectPlacement(def))
    \/ Edit(PlaceObjectAt)
    \/ Edit(CancelObjectPlacement)
    \/ \E i \in DOMAIN pending : Free(GatewayApply(i))
    \/ \E i \in DOMAIN pending, ok \in BOOLEAN : Free(PlaceObjectAtSettled(i, ok))
    \/ Free(TimerFire)

SpecPlacing == Init /\ [][NextPlacing]_vars

----------------------------------------------------------------------------
(* Claims *)

RECURSIVE UndoSteps(_)
\* how many times in a row undo moves the index, starting at `index`
UndoSteps(index) == IF UndoBlocked(index) THEN 0 ELSE 1 + UndoSteps(index - 1)

\* C1: the history stack never holds more than 50 snapshots; after 51
\* commits in a row its length is exactly 50, the snapshot of the first
\* commit is gone (the stack holds those of commits 2..51 in order), undo
\* moves the index 49 times from the top, and an undo that does nothing has
\* the index at the bottom of the stack.
C1_HistoryBounded ==
    /\ Len(history) <= 50
    /\ (commits = 51 /\ undoCalls = 0) =>
         /\ Len(history) = 50
         /\ \A k \in 1..Len(history) : history[k].stamp = k + 1
         /\ UndoSteps(Len(history) - 1) = 49
    /\ (last.op = "undoNoop" /\ Len(history) > 0) => historyIndex = 0

\* C1 witness: 51 commits in a row, then 49 undos, then one undo more
C1_Witness ==
    /\ commits = 51
    /\ undoCalls = 0
    /\ last.op = "undoNoop"
    /\ historyIndex = 0
    /\ Len(history) = 50

\* C2: a commit keeps only snapshots at or below historyIndex, puts the new
\* snapshot last and historyIndex on it, and leaves redo with nothing to do;
\* redo stays a no-op until an undo moves the index.
C2_CommitDiscardsRedoTail ==
    [][ /\ (commits' = commits + 1) =>
             /\ history'[Len(history')].stamp = commits'
             /\ historyIndex' = Len(history') - 1
             /\ \A k \in 1..(Len(history') - 1) :
                    \E j \in 1..(historyIndex + 1) : history'[k] = history[j]
             /\ RedoBlocked(historyIndex', history')
        /\ (RedoBlocked(historyIndex, history) /\ last'.op # "undo") =>
             /\ RedoBlocked(historyIndex', history')
             /\ (last'.op \in {"redo", "redoNoop"} =>
                   /\ last'.op = "redoNoop"
                   /\ <<objects, groups, lights, history, historyIndex>>'
                        = <<objects, groups, lights, history, historyIndex>>)
      ]_vars

\* C2 witness: a commit was made below the top of the stack (the stamps of
\* the last two snapshots are not consecutive: one between them was dropped)
C2_Witness ==
    /\ last.op = "saveToHistory"
    /\ Len(history) >= 2
    /\ history[Len(history)].stamp > history[Len(history) - 1].stamp + 1
    /\ historyIndex = Len(history) - 1

\* The scene after addObject(A) on the empty scene and the deferred commit
\* of that call: only A was ever created, one snapshot was pushed, and no
\* handler is pending.
C3_Scenario ==
    /\ nextId = 2
    /\ commits = 1
    /\ timers = 0
    /\ pending = <<>>
    /\ Len(history) >= 1 /\ Len(history[1].objects) = 1

\* C3: from the empty scene with empty history, addObject(A) and its commit
\* give a history of length 1; after a following undo the object list is
\* empty and the history index is 0; after a following redo the object list
\* contains A.
C3_AddCommitUndoRedo ==
    C3_Scenario =>
        /\ Len(history) = 1
        /\ last.op \in {"undo", "undoNoop"} =>
              objects = <<>> /\ historyIndex = 0
        /\ last.op \in {"redo", "redoNoop"} =>
              \E k \in DOMAIN objects : objects[k].id = 1

\* the scenario of C3 after the undo call
C3_Witness ==
    C3_Scenario /\ last.op \in {"undo", "undoNoop"}

\* C4: once the create write-back of an object resolved with persisted id F
\* (a snapshot of the history records the object with F), every undo or redo
\* that puts the object into the object list restores it with F.
C4_RestoredWithPersistedId ==
    last.op \in {"undo", "redo"} =>
        \A k \in DOMAIN objects : \A h \in DOMAIN history :
            \A j \in DOMAIN history[h].objects :
                (/\ history[h].objects[j].id = objects[k].id
                 /\ history[h].objects[j].firestoreId # NoId)
                => objects[k].firestoreId = history[h].objects[j].firestoreId

\* an undo restored an object although its create had resolved
C4_Witness ==
    /\ last.op = "undo"
    /\ objects # <<>>
    /\ \E h \in DOMAIN history : \E j \in DOMAIN history[h].objects :
          history[h].objects[j].firestoreId # NoId

\* the steps of toggleVisibility, updateObjectName, removeObject and
\* updateObjectProperties: the call and the run after the awaited gateway call
LockGuardedSteps ==
    {"toggleVisibility", "toggleVisibilityNoop", "toggleVisibilityResolved",
     "toggleVisibilityRejected",
     "updateObjectName", "updateObjectNameNoop", "updateObjectNameResolved",
     "updateObjectNameRejected",
     "removeObject", "removeObjectNoop", "removeObjectResolved",
     "removeObjectRejected",
     "updateObjectProperties", "updateObjectPropertiesNoop",
     "updateObjectPropertiesResolved", "updateObjectPropertiesRejected"}

\* C5: a step of toggleVisibility, updateObjectName, removeObject or
\* updateObjectProperties on an object that is locked, directly or through
\* its group, in the state just before the step is a silent no-op: the
\* object stays in the list with its name and visible flag, the groups'
\* member lists stay, and no gateway write is issued.
C5_LockedObjectUntouched ==
    [][\A k \in DOMAIN objects :
          (/\ LockedIn(objects, groups, k)
           /\ last'.op \in LockGuardedSteps
           /\ last'.id = objects[k].id)
          => /\ \E j \in DOMAIN objects' :
                   /\ objects'[j].id = objects[k].id
                   /\ objects'[j].name = objects[k].name
                   /\ objects'[j].visible = objects[k].visible
             /\ Len(groups') = Len(groups)
             /\ \A g \in DOMAIN groups : groups'[g].objectIds = groups[g].objectIds
             /\ Len(pending') <= Len(pending)]_vars

\* a guarded handler was called on a locked object and did nothing
C5_Witness ==
    /\ last.op \in {"toggleVisibilityNoop", "updateObjectNameNoop",
                    "removeObjectNoop"}
    /\ \E k \in DOMAIN objects :
          objects[k].id = last.id /\ LockedIn(objects, groups, k)

\* C7: for every mutation with a write-back, the local change is made in the
\* step of the call, before the gateway answers: after the call step of
\* addObject the object is in the list, after that of removeObject it is
\* gone, after that of toggleVisibility / toggleLock the flag is flipped,
\* after that of updateObjectName the object carries the name sent to the
\* gateway, after that of removeGroup / removeLight the entity is gone.
C7_LocalChangeInCallStep ==
    [][/\ last'.op = "addObject" =>
            \E j \in DOMAIN objects' : objects'[j].id = last'.id
       /\ last'.op = "removeObject" =>
            \A j \in DOMAIN objects' : objects'[j].id # last'.id
       /\ last'.op = "toggleVisibility" =>
            \A k \in DOMAIN objects : objects[k].id = last'.id =>
               \E j \in DOMAIN objects' :
                  /\ objects'[j].id = last'.id
                  /\ objects'[j].visible = ~objects[k].visible
       /\ last'.op = "toggleLock" =>
            \A k \in DOMAIN objects : objects[k].id = last'.id =>
               \E j \in DOMAIN objects' :
                  /\ objects'[j].id = last'.id
                  /\ objects'[j].locked = ~objects[k].locked
       /\ (last'.op = "updateObjectName" /\ Len(pending') > Len(pending)) =>
            \E j \in DOMAIN objects' :
               /\ objects'[j].id = last'.id
               /\ objects'[j].name = pending'[Len(pending')].data.name
       /\ last'.op = "removeGroup" =>
            \A j \in DOMAIN groups' : groups'[j].id # last'.id
       /\ last'.op = "removeLight" =>
            \A j \in DOMAIN lights' : lights'[j].id # last'.id]_vars

\* a handler awaits the gateway and its object is as before the call
C7_Witness ==
    /\ last.op \in {"removeObject", "toggleVisibility", "toggleLock",
                    "updateObjectName"}
    /\ pending # <<>>
    /\ pending[Len(pending)].op = last.op
    /\ pending[Len(pending)].st.objects = objects

\* the rejected call of the step: the pending call that the step settled
RejectedCall(op, i) ==
    /\ pending[i].op = op
    /\ pending[i].id = last'.id
    /\ pending[i].status = "sent"
    /\ pending' = RemoveAt(pending, i)

\* C8: when the gateway call of a mutation rejects, the local result of the
\* mutation is in place after the handler's run: the added object is still
\* in the list as it was, without a persisted id; the removed object is not
\* in the list; the toggled or renamed field has its new value.
C8_NoRevertOnRejection ==
    [][/\ last'.op = "addObjectRejected" =>
            \A k \in DOMAIN objects : objects[k].id = last'.id =>
               /\ objects[k].firestoreId = NoId
               /\ \E j \in DOMAIN objects' : objects'[j] = objects[k]
       /\ last'.op = "removeObjectRejected" =>
            \A j \in DOMAIN objects' : objects'[j].id # last'.id
       /\ last'.op = "toggleVisibilityRejected" =>
            \A i \in DOMAIN pending : RejectedCall("toggleVisibility", i) =>
               \E j \in DOMAIN objects' :
                  /\ objects'[j].id = last'.id
                  /\ objects'[j].visible = pending[i].data.visible
       /\ last'.op = "toggleLockRejected" =>
            \A i \in DOMAIN pending : RejectedCall("toggleLock", i) =>
               \E j \in DOMAIN objects' :
                  /\ objects'[j].id = last'.id
                  /\ objects'[j].locked = pending[i].data.locked
       /\ last'.op = "updateObjectNameRejected" =>
            \A i \in DOMAIN pending : RejectedCall("updateObjectName", i) =>
               \E j \in DOMAIN objects' :
                  /\ objects'[j].id = last'.id
                  /\ objects'[j].name = pending[i].data.name]_vars

\* a rename was rejected by the gateway and the object carries the new name
C8_Witness ==
    /\ last.op = "updateObjectNameRejected"
    /\ \E k \in DOMAIN objects : objects[k].id = last.id /\ objects[k].name = "B"
    /\ \A k \in DOMAIN remoteObjects : remoteObjects[k].name # "B"

\* the runs of handlers after their awaited gateway call
ContinuationSteps ==
    {"addObjectResolved", "addObjectRejected",
     "removeObjectResolved", "removeObjectRejected",
     "toggleVisibilityResolved", "toggleVisibilityRejected",
     "toggleLockResolved", "toggleLockRejected",
     "updateObjectNameResolved", "updateObjectNameRejected"}

\* C9: the run of a handler after its gateway call changes only the entity
\* it concerns: every other object of the list, among them the objects other
\* handlers added while the call was in flight, is in the list afterwards
\* as it was.
C9_ContinuationKeepsOtherObjects ==
    [][last'.op \in ContinuationSteps =>
          \A k \in DOMAIN objects : objects[k].id # last'.id =>
             \E j \in DOMAIN objects' : objects'[j] = objects[k]]_vars

\* a continuation ran while the scene held another object
C9_Witness ==
    /\ last.op \in ContinuationSteps
    /\ \E k \in DOMAIN objects : objects[k].id # last.id

\* C6: group membership is bidirectional in every state: for every object O
\* and group G, O.groupId is G.id if and only if O.id is in G.objectIds.
C6_MembershipBidirectional ==
    \A k \in DOMAIN objects : \A g \in DOMAIN groups :
        (objects[k].groupId = groups[g].id)
            <=> Includes(groups[g].objectIds, objects[k].id)

\* an object was moved into a group (or a group was made around it)
C6_Witness ==
    /\ last.op \in {"addObjectToGroup", "createGroup"}
    /\ \E k \in DOMAIN objects : \E g \in DOMAIN groups :
          /\ objects[k].groupId = groups[g].id
          /\ Includes(groups[g].objectIds, objects[k].id)

\* the records of the objects snapshot that firestoreToObject can rebuild
MeshRecords ==
    SelectSeq(ObjectsSnapshot, LAMBDA d : d.type \in {"Mesh", "CustomMesh"})

\* C10: an inbound snapshot replaces the whole slice: the list then has one
\* entity per snapshot record (for objects: per record of a mesh type), in
\* the snapshot's order, each with the record's persisted id; no entity
\* without a record is left, be its create still in flight; the other two
\* slices are unchanged.
C10_SnapshotReplacesSlice ==
    [][/\ last'.op = "objectsSnapshot" =>
            /\ Len(objects') = Len(MeshRecords)
            /\ \A k \in DOMAIN objects' :
                  /\ objects'[k].firestoreId = MeshRecords[k].id
                  /\ objects'[k].name = MeshRecords[k].name
                  /\ objects'[k].firestoreId # NoId
            /\ groups' = groups /\ lights' = lights
       /\ last'.op = "groupsSnapshot" =>
            /\ Len(groups') = Len(GroupsSnapshot)
            /\ \A k \in DOMAIN groups' :
                  /\ groups'[k].firestoreId = GroupsSnapshot[k].id
                  /\ groups'[k].firestoreId # NoId
            /\ objects' = objects /\ lights' = lights
       /\ last'.op = "lightsSnapshot" =>
            /\ Len(lights') = Len(LightsSnapshot)
            /\ \A k \in DOMAIN lights' :
                  /\ lights'[k].firestoreId = LightsSnapshot[k].id
                  /\ lights'[k].firestoreId # NoId
            /\ objects' = objects /\ groups' = groups]_vars

\* an objects snapshot arrived while a create was in flight, and the object
\* of that create is no longer in the list
C10_Witness ==
    /\ last.op = "objectsSnapshot"
    /\ objects # <<>>
    /\ \E i \in DOMAIN pending :
          /\ pending[i].op = "addObject"
          /\ \A k \in DOMAIN objects : objects[k].id # pending[i].id

\* what a snapshot records, its meshes read through the buffers `heap`
SnapshotContent(snapshot, heap) ==
    [objects |-> [k \in DOMAIN snapshot.objects |->
                    [entity |-> snapshot.objects[k],
                     positions |-> IF snapshot.objects[k].mesh \in DOMAIN heap
                                   THEN heap[snapshot.objects[k].mesh]
                                   ELSE <<>>]],
     groups |-> snapshot.groups,
     lights |-> snapshot.lights]

\* C11: a committed snapshot is immutable: whatever step is taken, a snapshot
\* that is in the stack before and after it (the same commit, by its stamp)
\* records the same objects, the same geometry, the same groups and the same
\* lights after the step as before it.
C11_SnapshotImmutable ==
    [][\A i \in DOMAIN history : \A j \in DOMAIN history' :
          history[i].stamp = history'[j].stamp =>
             SnapshotContent(history[i], geom)
                = SnapshotContent(history'[j], geom')]_vars

\* a vertex drag moved vertices of a mesh of the scene while the stack held
\* a snapshot of that mesh
C11_Witness ==
    /\ last.op = "updateVertexDrag"
    /\ history # <<>>
    /\ \E k \in DOMAIN objects :
          /\ objects[k].mesh = selectedObject
          /\ geom[selectedObject] # BufferOf(objects[k].geometry)

\* the canonical parameter set of a parametric kind, P with the documented
\* default for every field P leaves out
CanonicalParams(class, P) ==
    CASE class = "BoxGeometry" ->
            [width |-> OrElse(P, "width", 10), height |-> OrElse(P, "height", 10),
             depth |-> OrElse(P, "depth", 10)]
      [] class = "SphereGeometry" ->
            [radius |-> OrElse(P, "radius", 5),
             widthSegments |-> OrElse(P, "widthSegments", 320),
             heightSegments |-> OrElse(P, "heightSegments", 160)]
      [] class = "CylinderGeometry" ->
            [radiusTop |-> OrElse(P, "radiusTop", 5),
             radiusBottom |-> OrElse(P, "radiusBottom", 5),
             height |-> OrElse(P, "height", 10),
             radialSegments |-> OrElse(P, "radialSegments", 320)]
      [] class = "ConeGeometry" ->
            [radius |-> OrElse(P, "radius", 5), height |-> OrElse(P, "height", 10),
             radialSegments |-> OrElse(P, "radialSegments", 320)]

\* C12: for a mesh of a parametric kind (box, sphere, cylinder, cone) with
\* parameter set P and a name without custom keywords, the mesh rebuilt from
\* its record is of the same kind, and the record of the rebuilt mesh has
\* geometryParams equal to P with the documented defaults and no
\* customGeometry.
C12_ParametricRoundTrip ==
    (/\ codec # NoDrag
     /\ codec.stage = "again"
     /\ codec.object.geometry.class
            \in {"BoxGeometry", "SphereGeometry", "CylinderGeometry",
                 "ConeGeometry"}
     /\ codec.name \notin CustomNames)
    => /\ codec.rebuilt.geometry.class = codec.object.geometry.class
       /\ codec.again.geometryParams
             = CanonicalParams(codec.object.geometry.class,
                               codec.object.geometry.parameters)
       /\ codec.again.customGeometry = Absent

\* a box whose depth was undefined went through the codec and came back
\* with the default depth
C12_Witness ==
    /\ codec # NoDrag
    /\ codec.stage = "again"
    /\ codec.name \notin CustomNames
    /\ codec.object.geometry.class = "BoxGeometry"
    /\ ~Defined(codec.object.geometry.parameters, "depth")
    /\ codec.again.geometryParams = [width |-> 20, height |-> 10, depth |-> 10]

\* C13: for a mesh the codec treats as custom, with vertex buffer V and
\* index buffer I, the mesh rebuilt from its record has vertex buffer V and
\* index buffer I, and its normal buffer is not empty.
C13_CustomRoundTrip ==
    (/\ codec # NoDrag
     /\ codec.stage = "rebuilt"
     /\ isCustomGeometry(codec.object.geometry, codec.name))
    => /\ codec.rebuilt.geometry.position = codec.object.geometry.position
       /\ codec.rebuilt.geometry.index = codec.object.geometry.index
       /\ codec.rebuilt.geometry.normal # <<>>

\* a mesh of plain buffers without normals went through the codec: its
\* buffers are back and it has normals
C13_Witness ==
    /\ codec # NoDrag
    /\ codec.stage = "rebuilt"
    /\ codec.object.geometry.class = "BufferGeometry"
    /\ codec.object.geometry.normal = <<>>
    /\ codec.rebuilt.geometry.position = codec.object.geometry.position
    /\ codec.rebuilt.geometry.index = codec.object.geometry.index
    /\ codec.rebuilt.geometry.normal # <<>>

\* the indices of `positions` whose position is within 1e-4 of the position
\* at index i
WeldGroup(positions, i) ==
    {j \in DOMAIN positions : Overlapping(positions[j], positions[i])}

\* C14: in a vertex drag on the selected unlocked mesh (startVertexDrag and
\* then updateVertexDrag calls only), the weld group is exactly the set of
\* indices within 1e-4 of the picked vertex, the picked vertex among them,
\* and after every update each vertex of the weld group is at the position
\* passed last while every other vertex is where it was at the start.
C14_WeldGroupDragged ==
    (/\ gesture # NoDrag
     /\ gesture.kind = "vertex"
     /\ gesture.unbroken
     /\ last.op \in {"startVertexDrag", "updateVertexDrag"})
    => LET weld == WeldGroup(gesture.start, gesture.picked[1]) IN
       /\ gesture.picked[1] \in weld
       /\ Range(draggedVertex.indices) = weld
       /\ DOMAIN geom[gesture.mesh] = DOMAIN gesture.start
       /\ \A j \in DOMAIN gesture.start :
             geom[gesture.mesh][j] =
                IF gesture.updates > 0 /\ j \in weld
                THEN draggedVertex.position ELSE gesture.start[j]

\* a vertex drag moved a weld group of three vertices twice, and a vertex
\* outside the weld group is in the buffer
C14_Witness ==
    /\ gesture # NoDrag
    /\ gesture.kind = "vertex"
    /\ gesture.unbroken
    /\ last.op = "updateVertexDrag"
    /\ gesture.updates = 2
    /\ Cardinality(WeldGroup(gesture.start, gesture.picked[1])) = 3
    /\ geom[gesture.mesh] # gesture.start

\* C15: in an edge drag (startEdgeDrag with endpoints (a, b) and midpoint
\* m0, then updateEdgeDrag calls only), every vertex in the union of the
\* weld groups of a and b is displaced from its position at the start by
\* the position passed last minus m0, every other vertex is where it was,
\* and the recorded edge pairs are the cross product of the two weld groups,
\* each pair once.
C15_EdgeDragOffset ==
    (/\ gesture # NoDrag
     /\ gesture.kind = "edge"
     /\ gesture.unbroken
     /\ last.op \in {"startEdgeDrag", "updateEdgeDrag"})
    => LET wa == WeldGroup(gesture.start, gesture.picked[1])
           wb == WeldGroup(gesture.start, gesture.picked[2])
           d == Sub(draggedEdge.midpoint, gesture.midpoint)
       IN
       /\ \A j \in DOMAIN gesture.start :
             geom[gesture.mesh][j] =
                IF j \in wa \cup wb THEN Add(gesture.start[j], d)
                ELSE gesture.start[j]
       /\ Range(draggedEdge.indices) = {<<x, y>> : x \in wa, y \in wb}
       /\ Len(draggedEdge.indices) = Cardinality(wa) * Cardinality(wb)

\* an edge drag whose two weld groups share a vertex was updated twice and
\* ended away from where it started
C15_Witness ==
    /\ gesture # NoDrag
    /\ gesture.kind = "edge"
    /\ gesture.unbroken
    /\ last.op = "updateEdgeDrag"
    /\ gesture.updates = 2
    /\ WeldGroup(gesture.start, gesture.picked[1])
          \cap WeldGroup(gesture.start, gesture.picked[2]) # {}
    /\ draggedEdge.midpoint # gesture.midpoint

\* the steps of a drag before its end
DragSteps ==
    {"startVertexDrag", "updateVertexDrag", "startEdgeDrag", "updateEdgeDrag"}

\* the history stack with what each snapshot records
HistoryContent(hist, heap) ==
    [i \in DOMAIN hist |-> SnapshotContent(hist[i], heap)]

\* C16: startVertexDrag, updateVertexDrag, startEdgeDrag and updateEdgeDrag
\* leave the history stack (its snapshots and what they record) and
\* historyIndex as they were, issue no gateway call and leave the remote
\* store as it was.
C16_DragLeavesHistoryAndRemote ==
    [][last'.op \in DragSteps =>
          /\ HistoryContent(history', geom') = HistoryContent(history, geom)
          /\ historyIndex' = historyIndex
          /\ pending' = pending
          /\ UNCHANGED <<remoteObjects, remoteGroups, remoteLights>>]_vars

\* a drag moved vertices of a mesh of the scene while the stack held a
\* snapshot, and no handler is suspended at a gateway call
C16_Witness ==
    /\ last.op \in {"updateVertexDrag", "updateEdgeDrag"}
    /\ gesture # NoDrag
    /\ geom[gesture.mesh] # gesture.start
    /\ history # <<>>
    /\ pending = <<>>

\* the drag that an end step completes: started, updated and not broken
CompletedDrag(kind) ==
    /\ gesture # NoDrag
    /\ gesture.kind = kind
    /\ gesture.unbroken
    /\ gesture.updates > 0
    /\ last.op = IF kind = "vertex" THEN "updateVertexDrag" ELSE "updateEdgeDrag"

\* C17: endVertexDrag (endEdgeDrag) at the end of a vertex (edge) drag
\* appends exactly one snapshot, which contains the dragged geometry in its
\* final position; it issues one update write-back for the selected object
\* when that object has a persisted id and a project context is set, and
\* none otherwise; and it clears draggedVertex (draggedEdge).
C17_DragEndCommitsAndWritesBack ==
    [][\A kind \in {"vertex", "edge"} :
          (/\ CompletedDrag(kind)
           /\ last'.op = IF kind = "vertex" THEN "endVertexDrag"
                         ELSE "endEdgeDrag")
          => LET i == FindByMesh(objects, selectedObject)
                 top == history'[Len(history')]
             IN
             /\ Len(history') = historyIndex + 2
             /\ SubSeq(history', 1, historyIndex + 1)
                   = SubSeq(history, 1, historyIndex + 1)
             /\ \E k \in DOMAIN top.objects :
                   /\ top.objects[k].mesh \in DOMAIN geom'
                   /\ geom'[top.objects[k].mesh] = geom[gesture.mesh]
                   /\ geom[gesture.mesh] # gesture.start
             /\ IF i # 0 /\ objects[i].firestoreId # NoId /\ HasContext
                THEN /\ Len(pending') = Len(pending) + 1
                     /\ pending'[Len(pending')].kind = "update"
                     /\ pending'[Len(pending')].doc = objects[i].firestoreId
                ELSE pending' = pending
             /\ IF kind = "vertex" THEN draggedVertex' = NoDrag
                ELSE draggedEdge' = NoDrag]_vars

\* a drag on a persisted object of a project ended: one snapshot more, the
\* write-back in flight, the drag state cleared
C17_Witness ==
    /\ last.op \in {"endVertexDrag", "endEdgeDrag"}
    /\ draggedVertex = NoDrag
    /\ draggedEdge = NoDrag
    /\ history # <<>>
    /\ \E i \in DOMAIN pending : pending[i].op = "updateObjectProperties"
    /\ \E k \in DOMAIN objects :
          /\ objects[k].mesh = selectedObject
          /\ geom[selectedObject] # BufferOf(objects[k].geometry)

\* lights without their live handles
LightData(ls) ==
    [i \in DOMAIN ls |->
        [f \in DOMAIN ls[i] \ {"object"} |-> ls[i][f]]]

\* what undo and redo leave alone when they do not move
StoreKept ==
    UNCHANGED <<sceneVars, modeVars, draggedVertex, draggedEdge,
                selectedElements, placeVars, bulkVars, shapeVars, historyVars, geom,
                hasUnsavedChanges, projectVars, remoteVars, timers, pending,
                nextId>>

\* the store after undo or redo moved to the snapshot at the 0-based index
Restored(index) ==
    LET snapshot == history[index + 1] IN
    /\ historyIndex' = index
    /\ history' = history
    /\ objects' = snapshot.objects
    /\ groups' = snapshot.groups
    /\ LightData(lights') = LightData(snapshot.lights)
    /\ selectedObject' = NoMesh
    /\ selectedLight' = NoId

\* C18: undo moves historyIndex down by one exactly when a lower snapshot
\* exists and redo moves it up by one exactly when a higher snapshot exists;
\* otherwise the call changes nothing; when they move, objects, groups and
\* lights become those of the snapshot at the new index and selectedObject
\* and selectedLight become null.
C18_UndoRedoMove ==
    [][/\ last'.op \in {"undo", "undoNoop"} =>
             IF historyIndex - 1 >= 0 /\ historyIndex \in DOMAIN history
             THEN Restored(historyIndex - 1)
             ELSE StoreKept
       /\ last'.op \in {"redo", "redoNoop"} =>
             IF historyIndex + 2 \in DOMAIN history
             THEN Restored(historyIndex + 1)
             ELSE StoreKept]_vars

\* a redo put back a light that the undo before it had taken away, and the
\* selection is gone
C18_Witness ==
    /\ last.op = "redo"
    /\ historyIndex >= 1
    /\ lights # <<>>
    /\ Len(history[historyIndex].lights) < Len(lights)
    /\ selectedLight = NoId

\* the entities of a scene as data: every object without the identity of
\* its mesh object but with its position buffer, the groups, and the lights
\* without their live handles
EntityState(objs, grps, ls, heap) ==
    [objects |-> [k \in DOMAIN objs |->
                    [entity |-> [objs[k] EXCEPT !.mesh = NoMesh],
                     positions |-> IF objs[k].mesh \in DOMAIN heap
                                   THEN heap[objs[k].mesh] ELSE <<>>]],
     groups |-> grps,
     lights |-> LightData(ls)]

\* the steps that end a call of the mutation API which changed the
\* entities: the call itself, its run after the awaited gateway call, or
\* the commit that addObject and removeObject queue
MutationSteps ==
    {"addObject", "addObjectResolved", "addObjectRejected", "saveToHistory",
     "removeObject", "removeObjectResolved", "removeObjectRejected",
     "duplicateObject", "duplicateObjectResolved",
     "updateObjectName", "updateObjectNameResolved",
     "toggleVisibility", "toggleVisibilityResolved",
     "toggleLock", "toggleLockResolved",
     "createGroup", "createGroupResolved", "removeGroup",
     "removeGroupResolved", "updateGroupName",
     "addObjectToGroup", "addObjectToGroupResolved",
     "removeObjectFromGroup", "removeObjectFromGroupResolved",
     "moveObjectsToGroup",
     "addLight", "addLightResolved", "removeLight", "removeLightResolved",
     "updateLight", "endVertexDrag", "endEdgeDrag"}

\* the live entities are the ones the snapshot at historyIndex records
LiveStateCommitted ==
    /\ historyIndex + 1 \in DOMAIN history
    /\ LET snapshot == history[historyIndex + 1] IN
       EntityState(snapshot.objects, snapshot.groups, snapshot.lights, geom)
          = EntityState(objects, groups, lights, geom)

\* C19: after every completed mutation of objects, groups or lights through
\* the mutation API (no commit of it is queued and no handler is suspended
\* at the gateway), the snapshot at historyIndex equals the live entity
\* state.
C19_MutationCommitted ==
    (last.op \in MutationSteps /\ timers = 0 /\ pending = <<>>)
       => LiveStateCommitted

\* an object was added and then renamed, nothing is queued or in flight
C19_Witness ==
    /\ last.op \in {"updateObjectName", "updateObjectNameResolved"}
    /\ timers = 0
    /\ pending = <<>>
    /\ history # <<>>
    /\ \E k \in DOMAIN objects : objects[k].name = "B"

\* the object at position k is a member of the group at position g: the
\* group lists it
MemberOf(objs, grps, k, g) == Includes(grps[g].objectIds, objs[k].id)

\* the object-level handlers that the lock cascade guards
ObjectLevelSteps ==
    {"toggleVisibility", "updateObjectName", "removeObject", "toggleLock",
     "toggleVisibilityNoop", "updateObjectNameNoop", "removeObjectNoop",
     "toggleLockNoop"}

\* C20: toggleGroupVisibility on an unlocked group gives the group's visible
\* flag and that of every member the same new value and changes no other
\* object; toggleGroupLock flips the group's locked flag and leaves every
\* object's own locked flag as it was; and a call of an object-level handler
\* on a member of a locked group leaves the object as it was.
C20_GroupCascade ==
    [][/\ \A g \in DOMAIN groups :
             (last'.op = "toggleGroupVisibility" /\ last'.id = groups[g].id
              /\ ~groups[g].locked)
             => /\ groups' = [groups EXCEPT ![g].visible = ~groups[g].visible]
                /\ DOMAIN objects' = DOMAIN objects
                /\ \A k \in DOMAIN objects :
                      objects'[k] =
                         IF MemberOf(objects, groups, k, g)
                         THEN [objects[k] EXCEPT !.visible = ~groups[g].visible]
                         ELSE objects[k]
       /\ \A g \in DOMAIN groups :
             (last'.op = "toggleGroupLock" /\ last'.id = groups[g].id)
             => /\ groups' = [groups EXCEPT ![g].locked = ~groups[g].locked]
                /\ objects' = objects
       /\ \A g \in DOMAIN groups : \A k \in DOMAIN objects :
             (/\ groups[g].locked
              /\ MemberOf(objects, groups, k, g)
              /\ last'.op \in ObjectLevelSteps
              /\ last'.id = objects[k].id)
             => objects' = objects]_vars

\* a group with a member was hidden, or a handler was called on a member of
\* a locked group and did nothing
C20_Witness ==
    \/ /\ last.op = "toggleGroupVisibility"
       /\ \E g \in DOMAIN groups : \E k \in DOMAIN objects :
             /\ groups[g].id = last.id
             /\ MemberOf(objects, groups, k, g)
             /\ ~groups[g].visible /\ ~objects[k].visible
    \/ /\ last.op \in {"toggleVisibilityNoop", "updateObjectNameNoop",
                       "removeObjectNoop", "toggleLockNoop"}
       /\ \E g \in DOMAIN groups : \E k \in DOMAIN objects :
             /\ objects[k].id = last.id
             /\ groups[g].locked
             /\ MemberOf(objects, groups, k, g)
             /\ ~objects[k].locked

\* the steps of the handlers that take an object id
ObjectIdSteps ==
    {"removeObject", "removeObjectNoop", "toggleVisibility",
     "toggleVisibilityNoop", "toggleLock", "toggleLockNoop",
     "updateObjectName", "updateObjectNameNoop", "addObjectToGroup",
     "addObjectToGroupNoop", "removeObjectFromGroup",
     "removeObjectFromGroupNoop"}

\* the steps of the handlers that take a group id
GroupIdSteps ==
    {"removeGroup", "removeGroupNoop", "toggleGroupVisibility",
     "toggleGroupVisibilityNoop", "toggleGroupLock", "toggleGroupLockNoop",
     "updateGroupName", "updateGroupNameNoop"}

\* the steps of the handlers that take a light id
LightIdSteps ==
    {"removeLight", "removeLightNoop", "updateLight", "toggleLightVisibility",
     "toggleLightVisibilityNoop"}

\* the step is a call with an id that no entity of its kind has
TargetAbsent ==
    \/ last'.op \in ObjectIdSteps /\ last'.id \notin ObjectIds
    \/ last'.op \in GroupIdSteps /\ last'.id \notin GroupIds
    \/ last'.op \in LightIdSteps /\ last'.id \notin LightIds

\* C21: a mutation that targets an id absent from local state is a silent
\* no-op: objects, groups, lights, history and hasUnsavedChanges are
\* unchanged and no gateway call is issued.
C21_AbsentIdNoop ==
    [][TargetAbsent =>
          UNCHANGED <<objects, groups, lights, history, historyIndex,
                      hasUnsavedChanges, pending>>]_vars

\* removeObject was called with an id no object has, in a scene that has an
\* object, and did nothing
C21_Witness ==
    /\ last.op = "removeObjectNoop"
    /\ last.id \notin ObjectIds
    /\ objects # <<>>
    /\ ~hasUnsavedChanges

\* C22: setSelectedObject never changes persistentEditMode; deselecting
\* (null) sets editMode to null; selecting an object that is locked,
\* directly or through its group, changes neither the selection nor the
\* modes; selecting any other object of the scene selects it and sets
\* editMode to persistentEditMode when that is set, otherwise to 'vertex'
\* when the geometry is a sphere, cylinder or cone, otherwise leaves it.
C22_SelectionSetsEditMode ==
    [][last'.op \in {"setSelectedObject", "setSelectedObjectNoop"} =>
          /\ persistentEditMode' = persistentEditMode
          /\ last'.id = NoId => selectedObject' = NoMesh /\ editMode' = "null"
          /\ \A k \in DOMAIN objects :
                objects[k].id = last'.id =>
                   IF LockedIn(objects, groups, k)
                   THEN UNCHANGED <<selectedObject, editMode, transformMode>>
                   ELSE /\ selectedObject' = objects[k].mesh
                        /\ editMode' =
                              IF persistentEditMode # "null"
                              THEN persistentEditMode
                              ELSE IF objects[k].geometry
                                         \in {"sphere", "cylinder", "cone"}
                                   THEN "vertex"
                              ELSE editMode]_vars

\* a cone was selected while the persistent mode had been set by hand to
\* edge, and took the persistent mode
C22_Witness ==
    /\ last.op = "setSelectedObject"
    /\ persistentEditMode = "edge"
    /\ editMode = "edge"
    /\ \E k \in DOMAIN objects :
          /\ objects[k].mesh = selectedObject
          /\ objects[k].geometry = "cone"

\* the placement workflow is idle
Idle == ~placementMode /\ pendingObject = NoDrag

\* C23: placementMode is true exactly when pendingObject is set;
\* startObjectPlacement enters placing and clears selection, transform mode
\* and edit mode; placeObjectAt in idle changes nothing; placeObjectAt in
\* placing adds exactly one object (the pending one), and the step that
\* ends the call selects that object and leaves the workflow idle without
\* adding another; cancelObjectPlacement leaves the workflow idle and adds
\* no object.
C23_PlacementMachine ==
    [][/\ placementMode <=> pendingObject # NoDrag
       /\ placementMode' <=> pendingObject' # NoDrag
       /\ last'.op = "startObjectPlacement" =>
             /\ placementMode' /\ pendingObject' # NoDrag
             /\ selectedObject' = NoMesh
             /\ transformMode' = "null"
             /\ editMode' = "null"
             /\ objects' = objects
       /\ (last'.op \in {"placeObjectAt", "placeObjectAtNoop"} /\ Idle) =>
             UNCHANGED <<objects, groups, lights, selectedObject, modeVars,
                         placeVars, historyVars, hasUnsavedChanges, timers,
                         pending>>
       /\ (last'.op \in {"placeObjectAt", "placeObjectAtNoop"} /\ ~Idle) =>
             /\ Len(objects') = Len(objects) + 1
             /\ SubSeq(objects', 1, Len(objects)) = objects
             /\ objects'[Len(objects')].id = last'.id
             /\ objects'[Len(objects')].name = pendingObject.name
             /\ objects'[Len(objects')].geometry = pendingObject.geometry
             /\ pending' = pending =>
                   /\ selectedObject' = objects'[Len(objects')].mesh
                   /\ ~placementMode' /\ pendingObject' = NoDrag
       /\ last'.op \in {"placeObjectAtResolved", "placeObjectAtRejected"} =>
             /\ Len(objects') = Len(objects)
             /\ selectedObject' = <<last'.id, 0>>
             /\ ~placementMode' /\ pendingObject' = NoDrag
       /\ last'.op = "cancelObjectPlacement" =>
             /\ ~placementMode' /\ pendingObject' = NoDrag
             /\ objects' = objects]_vars

\* a placement in a project ended after saveObject resolved: the placed
\* object is in the scene with its document id, it is selected, and the
\* workflow is idle
C23_Witness ==
    /\ last.op = "placeObjectAtResolved"
    /\ Idle
    /\ \E k \in DOMAIN objects :
          /\ objects[k].id = last.id
          /\ objects[k].mesh = selectedObject
          /\ objects[k].firestoreId # NoId

\* the per-record calls of the bulk operation that have not settled
Unfinished ==
    {k \in DOMAIN batch.attempts : batch.attempts[k].status \in {"sent", "ok"}}

\* C24: a bulk operation (clearProjectData, copyProjectData,
\* saveObjectsBatch, deleteObjectsBatch, saveProjectData) resolves or
\* rejects only after every per-record attempt it started has finished.
C24_BulkSettlesLast ==
    (batch # NoDrag /\ batch.promise # "pending") => Unfinished = {}

\* saveProjectData has rejected on the first of two saves while the second
\* is still on its way
C24_Witness ==
    /\ batch # NoDrag
    /\ batch.op = "saveProjectData"
    /\ batch.promise = "rejected"
    /\ Len(batch.attempts) = 2
    /\ batch.attempts[1].status = "failed"
    /\ batch.attempts[2].status = "sent"

\* the steps in which a gateway call awaited by a store mutation is seen
\* to have rejected
RejectionSteps ==
    {"addObjectRejected", "removeObjectRejected", "toggleVisibilityRejected",
     "toggleLockRejected", "updateObjectNameRejected",
     "updateObjectPropertiesRejected", "createGroupRejected",
     "removeGroupRejected", "addObjectToGroupRejected",
     "removeObjectFromGroupRejected", "writeBackRejected",
     "duplicateObjectRejected", "addLightRejected", "removeLightRejected",
     "placeObjectAtRejected"}

\* C25: when the gateway call behind a scene-store mutation rejects, the
\* promise the mutation returned rejects: no mutation ends fulfilled in the
\* step that sees the rejection, and saveProjectData has not fulfilled when
\* one of its per-record calls has failed.
C25_RejectionPropagates ==
    [][/\ last'.op \in RejectionSteps => last'.promise # "fulfilled"
       /\ last'.op = "bulkAttemptRejected" /\ batch.op = "saveProjectData" =>
             batch'.promise = "rejected"]_vars

\* the saveObject of addObject rejected and addObject has returned: the
\* object is in the scene without a persisted id
C25_Witness ==
    /\ last.op = "addObjectRejected"
    /\ last.promise = "fulfilled"
    /\ \E k \in DOMAIN objects :
          objects[k].id = last.id /\ objects[k].firestoreId = NoId

\* the collection whose listener's callback ran in the step
CallbackOf(op) ==
    CASE op = "objectsSnapshot" -> "objects"
      [] op = "groupsSnapshot" -> "groups"
      [] op = "lightsSnapshot" -> "lights"

\* C26: after setCurrentProject or clearProjectData has returned, every
\* subscription that was attached before the call is released; at most one
\* subscription per collection is attached; and a callback that changes
\* the store belongs to a subscription that is attached, held by the store
\* and made for the current project.
C26_SubscriptionsReleased ==
    [][/\ last'.op \in {"setCurrentProject", "clearProjectData"} =>
             /\ listeners.active \cap listeners'.active = {}
             /\ last'.op = "clearProjectData" => listeners'.active = {}
       /\ \A c \in {"objects", "groups", "lights"} :
             Cardinality({l \in listeners'.active : l.coll = c}) <= 1
       /\ last'.op \in {"objectsSnapshot", "groupsSnapshot", "lightsSnapshot"} =>
             \E l \in listeners.active :
                /\ l.coll = CallbackOf(last'.op)
                /\ l.serial = unsubscribe[l.coll]
                /\ l.project = currentProjectId /\ l.user = currentUserId]_vars

\* a second project was opened after a first one, and the objects listener
\* of the second has delivered: only the three listeners of the second
\* project are attached
C26_Witness ==
    /\ listeners.made = 6
    /\ currentProjectId = 2
    /\ {l.serial : l \in listeners.active} = {4, 5, 6}
    /\ last.op = "objectsSnapshot"

\* the names of CodecNames that contain star, heart, torus or custom,
\* whatever the case
KeywordNames == {"Star", "HEART"}

\* C27: a mesh is serialized as custom (type 'CustomMesh', raw buffers in
\* customGeometry) if and only if its name contains one of the keywords
\* star, heart, torus, custom case-insensitively, or its geometry is a
\* torus, or its geometry is not a box, sphere, cylinder or cone carrying
\* parameters; every other mesh is serialized as parametric, with
\* geometryParams and without customGeometry.
C27_CustomClassification ==
    codec.stage # "mesh" =>
        LET geometry == codec.object.geometry
            custom ==
                \/ codec.name \in KeywordNames
                \/ geometry.class = "TorusGeometry"
                \/ geometry.class \notin {"BoxGeometry", "SphereGeometry",
                                          "CylinderGeometry", "ConeGeometry"}
        IN  /\ custom <=> codec.record.type = "CustomMesh"
            /\ custom =>
                  /\ codec.record.customGeometry # Absent
                  /\ codec.record.customGeometry.vertices = geometry.position
                  /\ codec.record.customGeometry.indices = geometry.index
            /\ ~custom =>
                  /\ codec.record.type = "Mesh"
                  /\ codec.record.geometryParams # Absent
                  /\ codec.record.customGeometry = Absent

\* a box named HEART was serialized as custom, with its buffers
C27_Witness ==
    /\ codec.stage = "record"
    /\ codec.name = "HEART"
    /\ codec.object.geometry.class = "BoxGeometry"
    /\ codec.record.type = "CustomMesh"
    /\ codec.record.customGeometry.vertices = EditedVertices

\* C28: after undo or redo has restored a snapshot, every restored light
\* has a live handle whose type, intensity and visibility equal the
\* parameters recorded for that light in the snapshot.
C28_RestoredLightHandles ==
    [][last'.op \in {"undo", "redo"} =>
          \A k \in DOMAIN lights' :
             /\ lights'[k].object.type = lights'[k].type
             /\ lights'[k].object.intensity = lights'[k].intensity
             /\ lights'[k].object.visible = lights'[k].visible]_vars

\* undo or redo has restored a light that was hidden when the snapshot was
\* taken, and its handle is visible
C28_Witness ==
    /\ last.op \in {"undo", "redo"}
    /\ \E k \in DOMAIN lights :
          ~lights[k].visible /\ lights[k].object.visible

\* the selected object before a segment-count call, and what the statement
\* takes for its kind: the class its geometry was constructed as
SelectedKind ==
    LET i == FindByMesh(objects, selectedObject)
    IN  IF i = 0 THEN "none" ELSE GeometryOf(objects[i]).class

NoElements == [vertices |-> <<>>, edges |-> <<>>, faces |-> <<>>]

\* the geometry the selected mesh has after the step is of `class`, has the
\* segment count asked for and otherwise the parameters it had before; for a
\* sphere the count of rings follows the count of segments
Regenerated(class, segments, derived) ==
    LET i == FindByMesh(objects, selectedObject)
        old == GeometryOf(objects[i])
        new == shapes'[selectedObject]
    IN  /\ selectedObject \in DOMAIN shapes'
        /\ new.class = class
        /\ DOMAIN new.parameters = DOMAIN old.parameters
        /\ new.parameters[segments] = last'.count
        /\ \A f \in DOMAIN old.parameters \ ({segments} \cup derived) :
              new.parameters[f] = old.parameters[f]
        /\ selectedElements' = NoElements

\* C29: updateCylinderVertices(n) resp. updateSphereVertices(n) on a
\* selected, unlocked cylinder resp. sphere replaces the geometry by a new
\* parametric geometry with segment count n and otherwise the old
\* parameters, and clears the element selection; when the selected object is
\* not of that kind, or is locked directly or through its group, the call
\* changes nothing.
C29_SegmentRegeneration ==
    [][/\ last'.op \in {"updateCylinderVertices", "updateCylinderVerticesNoop"}
          => IF SelectedKind = "CylinderGeometry" /\ ~SelectedLocked
             THEN Regenerated("CylinderGeometry", "radialSegments", {})
             ELSE UNCHANGED <<sceneVars, editVars, historyVars, geom, pending>>
       /\ last'.op \in {"updateSphereVertices", "updateSphereVerticesNoop"}
          => IF SelectedKind = "SphereGeometry" /\ ~SelectedLocked
             THEN Regenerated("SphereGeometry", "widthSegments",
                              {"heightSegments"})
             ELSE UNCHANGED <<sceneVars, editVars, historyVars, geom, pending>>
      ]_vars

\* updateCylinderVertices has run on a selected, unlocked cone: the mesh now
\* has a cylinder geometry with the constructor's default radii
C29_Witness ==
    /\ last.op = "updateCylinderVertices"
    /\ \E k \in DOMAIN objects :
          /\ objects[k].id = last.id
          /\ objects[k].mesh \in DOMAIN shapes
          /\ shapes[objects[k].mesh].class = "CylinderGeometry"
          /\ shapes[objects[k].mesh].parameters.radiusTop
                = CylinderDefaults.radiusTop
          /\ shapes[objects[k].mesh].parameters.radialSegments = last.count

\* the positions of the persisted objects with document id `doc` among
\* `objs`, read from `heap`
PositionsOf(objs, heap, doc) ==
    {heap[objs[k].mesh] : k \in {j \in DOMAIN objs : objs[j].firestoreId = doc}}

\* C30: after a vertex or edge drag on an object with a persisted id has
\* ended and its write-back has succeeded, the object rebuilt from the remote
\* record has the edited vertex positions, for every kind of geometry (box,
\* sphere, cylinder, cone, torus).  Stated on the objects snapshot that
\* comes right after the write-back resolved, with no call in flight and no
\* drag under way: every persisted object is rebuilt with the positions it
\* had.
C30_RebuildKeepsEdits ==
    [][(/\ last.op = "updateObjectPropertiesResolved"
        /\ last'.op = "objectsSnapshot"
        /\ pending = <<>>
        /\ draggedVertex = NoDrag
        /\ draggedEdge = NoDrag)
       => \A k \in DOMAIN objects :
             objects[k].firestoreId # NoId
                => PositionsOf(objects', geom', objects[k].firestoreId)
                      = {geom[objects[k].mesh]}]_vars

\* the dragged mesh is still selected and has its edited positions; its
\* write-back has settled and the snapshot has put a rebuilt mesh with the
\* constructor's positions in its place
C30_Witness ==
    /\ last.op = "objectsSnapshot"
    /\ pending = <<>>
    /\ hasUnsavedChanges
    /\ gesture = NoDrag
    /\ selectedObject \in DOMAIN geom
    /\ selectedObject \notin Meshes
    /\ \E k \in DOMAIN objects :
          /\ objects[k].firestoreId # NoId
          /\ objects[k].geometry \in RebuildKinds
          /\ geom[objects[k].mesh] = BufferOf(objects[k].geometry)
          /\ geom[selectedObject] # geom[objects[k].mesh]

\* C31: updateCylinderVertices and updateSphereVertices on a selected
\* unlocked cylinder or sphere leave the history stack one snapshot longer
\* than before, with historyIndex at the new top and hasUnsavedChanges true.
C31_SegmentCommitKept ==
    [][(\/ /\ last'.op = "updateCylinderVertices"
           /\ SelectedKind = "CylinderGeometry"
        \/ /\ last'.op = "updateSphereVertices"
           /\ SelectedKind = "SphereGeometry")
       => /\ Len(history') = Len(history) + 1
          /\ historyIndex' = Len(history') - 1
          /\ hasUnsavedChanges']_vars

\* updateSphereVertices has replaced the geometry of a sphere and the history
\* stack is still empty
C31_Witness ==
    /\ last.op = "updateSphereVertices"
    /\ \E k \in DOMAIN objects :
          /\ objects[k].id = last.id
          /\ objects[k].mesh \in DOMAIN shapes
          /\ shapes[objects[k].mesh].parameters.widthSegments = last.count
    /\ history = <<>>
    /\ historyIndex = -1

\* C32: after setCurrentProject(P2, u) the local lists never contain an
\* entity that belonged to the project open before: neither undo or redo nor
\* the continuation of a call that was in flight at the switch brings one
\* back while P2 is current.  Stated for the objects: each was made in the
\* current project.
C32_NoForeignEntities ==
    currentProjectId # NoId
       => \A k \in DOMAIN objects : objects[k].name = NameIn(currentProjectId)

\* project 2 is current and undo has put an object of project 1 back in the
\* scene
C32_Witness ==
    /\ currentProjectId = 2
    /\ last.op = "undo"
    /\ \E k \in DOMAIN objects : objects[k].name = NameIn(1)

\* the creates of object documents that are in flight and not yet carried
\* out: those of addObject and those of a saveProjectData
CreatesInFlight ==
    Cardinality({i \in DOMAIN pending :
                    /\ pending[i].coll = "objects"
                    /\ pending[i].kind = "create"
                    /\ pending[i].status = "sent"})
    + (IF batch = NoDrag THEN 0
       ELSE Cardinality({k \in DOMAIN batch.attempts :
                            /\ batch.attempts[k].coll = "objects"
                            /\ batch.attempts[k].kind = "create"
                            /\ batch.attempts[k].status = "sent"}))

\* C33: for each local object at most one gateway create is ever issued: an
\* object whose create is in flight or has succeeded is not created a second
\* time.  No document is deleted and every local object was made by
\* addObject here, so the creates in flight and the documents made are
\* together no more than the objects made.
C33_OneCreatePerEntity ==
    CreatesInFlight + Len(remoteObjects) <= nextId - 1

\* one object was made; its create by addObject has been carried out and a
\* create of the same object by saveProjectData is in flight
C33_Witness ==
    /\ nextId = 2
    /\ Len(remoteObjects) = 1
    /\ batch # NoDrag
    /\ batch.op = "saveProjectData"
    /\ \E k \in DOMAIN batch.attempts :
          /\ batch.attempts[k].coll = "objects"
          /\ batch.attempts[k].kind = "create"
          /\ batch.attempts[k].status = "sent"
          /\ batch.attempts[k].id = 1

\* the persisted ids of the local objects that name no document of the
\* current project
DanglingIds ==
    {objects[k].firestoreId : k \in DOMAIN objects} \ ({NoId} \cup
    {remoteObjects[d].id :
        d \in {e \in DOMAIN remoteObjects :
                  remoteObjects[e].projectId = currentProjectId}})

\* C34: every persisted id held by a local object names a record that
\* exists in the remote store for the current project: no sequence of
\* removeObject, undo and redo leaves a local object with the id of a
\* record that was deleted.  Stated for the states with no gateway call in
\* flight.
C34_PersistedIdsExist ==
    (pending = <<>> /\ HasContext) => DanglingIds = {}

\* undo has restored an object that was removed; its document is deleted
\* and the object carries the document's id
C34_Witness ==
    /\ last.op = "undo"
    /\ pending = <<>>
    /\ HasContext
    /\ remoteObjects = <<>>
    /\ \E k \in DOMAIN objects : objects[k].firestoreId # NoId

\* C35: in every reachable state the selected object is not locked, neither
\* directly nor through a locked group.
C35_SelectionNotLocked == ~SelectedLocked

\* the group of the selected object is locked: the group was locked and the
\* selection cleared while a toggleVisibility call on another object was in
\* flight, and the call's continuation has put the selection back
C35_Witness ==
    /\ last.op = "toggleVisibilityResolved"
    /\ SelectedLocked
    /\ LET s == FindByMesh(objects, selectedObject) IN
       /\ ~objects[s].locked
       /\ objects[s].id # last.id

\* every write-back has settled and the snapshots of the objects and the
\* groups collection have been delivered
Quiet ==
    /\ pending = <<>>
    /\ ~undelivered.objects
    /\ ~undelivered.groups

\* C36: when group membership was changed and all write-backs succeeded,
\* replacing the local object and group slices by the resulting inbound
\* snapshots yields a state in which every object that is in a group by the
\* remote records is a member of that group: its groupId names an existing
\* local group and that group's objectIds contains the object's local id.
C36_MembershipSurvivesReload ==
    (Quiet /\ HasContext /\ last.op \in {"objectsSnapshot", "groupsSnapshot"})
       => \A k \in DOMAIN objects :
             objects[k].groupId # NoId
                => \E g \in DOMAIN groups :
                      /\ groups[g].id = objects[k].groupId
                      /\ Includes(groups[g].objectIds, objects[k].id)

\* both slices were replaced by snapshots after the object was put in the
\* group: the object's groupId names no local group and the group lists an
\* id that no local object has
C36_Witness ==
    /\ Quiet
    /\ HasContext
    /\ last.op \in {"objectsSnapshot", "groupsSnapshot"}
    /\ \E k \in DOMAIN objects :
          /\ objects[k].groupId # NoId
          /\ objects[k].firestoreId # NoId
          /\ \A g \in DOMAIN groups : groups[g].id # objects[k].groupId
    /\ \E g \in DOMAIN groups :
          /\ groups[g].firestoreId = groups[g].id
          /\ groups[g].objectIds # <<>>
          /\ \A k \in DOMAIN objects :
                ~Includes(groups[g].objectIds, objects[k].id)

\* C37: in every reachable state canUndo is true exactly when undo would
\* change the state (historyIndex > 0) and canRedo is true exactly when redo
\* would change the state (historyIndex < history length - 1).
C37_FlagsMatchIndex ==
    /\ canUndo <=> ~UndoBlocked(historyIndex)
    /\ canRedo <=> ~RedoBlocked(historyIndex, history)

\* the first commit of the store: the history holds one snapshot, undo would
\* return the state unchanged, and canUndo is set
C37_Witness ==
    /\ last.op = "saveToHistory"
    /\ Len(history) = 1
    /\ historyIndex = 0
    /\ UndoBlocked(historyIndex)
    /\ canUndo
    /\ ~canRedo

\* the selected object is a mesh of the scene with sphere, cylinder or cone
\* geometry
SmoothSelected ==
    LET i == FindByMesh(objects, selectedObject) IN
    /\ i # 0
    /\ objects[i].type = "Mesh"
    /\ objects[i].geometry \in SmoothKinds

\* C38: in every reachable state, editMode is not 'edge' while the selected
\* object is a mesh with sphere, cylinder or cone geometry.
C38_NoEdgeOnSmooth == ~(editMode = "edge" /\ SmoothSelected)

\* edge mode was set while nothing or a box was selected, and a sphere,
\* cylinder or cone selected afterwards took it from the persistent mode
C38_Witness ==
    /\ last.op = "setSelectedObject"
    /\ SmoothSelected
    /\ editMode = "edge"
    /\ persistentEditMode = "edge"
    /\ ~LockedIn(objects, groups, FindByMesh(objects, selectedObject))

\* the objects of the scene that the placement of `name` added
PlacedAs(name) == {k \in DOMAIN objects : objects[k].name = name}

\* C39: each startObjectPlacement leads to at most one added object, and a
\* pending placement is only ended by its own placeObjectAt or by
\* cancelObjectPlacement: a second placeObjectAt issued while the first is
\* still awaiting its create write-back adds no second object, and the
\* completion of an earlier placeObjectAt does not clear a pendingObject set
\* by a later startObjectPlacement.
C39_OneObjectPerPlacement ==
    [][/\ \A def \in ObjectDefs : Cardinality(PlacedAs(def.name)') <= 1
       /\ (pendingObject # NoDrag /\ pendingObject' = NoDrag) =>
             \/ last'.op = "cancelObjectPlacement"
             \/ /\ last'.op \in {"placeObjectAt", "placeObjectAtResolved",
                                 "placeObjectAtRejected"}
                /\ \E k \in DOMAIN objects' :
                      /\ objects'[k].id = last'.id
                      /\ objects'[k].name = pendingObject.name]_vars

\* placeObjectAt was called twice for one started placement before the
\* first call came back, and the scene holds two objects of it
C39_Witness ==
    /\ HasContext
    /\ \E def \in ObjectDefs :
          /\ Cardinality(PlacedAs(def.name)) = 2
          /\ Cardinality({i \in DOMAIN pending :
                             /\ pending[i].op = "placeObjectAt"
                             /\ pending[i].data.name = def.name}) = 2

\* no gateway call is in flight and no commit is queued
NothingInFlight ==
    /\ pending = <<>>
    /\ timers = 0
    /\ BulkIdle

\* the per-record calls of the last saveProjectData for one collection, when
\* it has succeeded; nothing when no bulk operation ran since the project
\* was opened with empty collections
LastWritten(coll) ==
    IF batch = NoDrag THEN <<>>
    ELSE SelectSeq(batch.attempts, LAMBDA a : a.coll = coll)

\* the entities `seq` are the ones the calls `written` saved, one call each
SameEntities(seq, written) ==
    /\ Len(seq) = Len(written)
    /\ \A k \in DOMAIN seq : seq[k].id = written[k].id

\* C40: whenever hasUnsavedChanges is false and no gateway call is in
\* flight, the local objects, groups and lights are the ones last loaded or
\* last written by a successful saveProjectData: a mutation applied while
\* saveProjectData is in flight, and an undo or redo that changes the entity
\* lists, both leave hasUnsavedChanges true.
C40_SavedMeansPersisted ==
    (/\ ~hasUnsavedChanges
     /\ NothingInFlight
     /\ batch # NoDrag => batch.op = "saveProjectData"
                          /\ batch.promise = "fulfilled")
       => /\ SameEntities(objects, LastWritten("objects"))
          /\ SameEntities(groups, LastWritten("groups"))
          /\ SameEntities(lights, LastWritten("lights"))
          /\ \A k \in DOMAIN objects :
                LastWritten("objects")[k].data =
                   objectToFirestore(objects[k], currentUserId,
                                     currentProjectId)

\* saveProjectData has written two objects and cleared the flag, and an undo
\* has since taken one of them out of the scene: the flag is still clear
C40_Witness ==
    /\ last.op = "undo"
    /\ ~hasUnsavedChanges
    /\ NothingInFlight
    /\ batch # NoDrag
    /\ batch.op = "saveProjectData"
    /\ batch.promise = "fulfilled"
    /\ Len(LastWritten("objects")) = 2
    /\ Len(objects) = 1

====
